---- MODULE Spec2Model ----
(***************************************************************************)
(* Enterprise-Rag: the three example pipelines                             *)
(*   examples/basic_rag/run_pipeline.py       SimpleRAGPipeline            *)
(*   examples/compliance_rag/run_pipeline.py  ComplianceRAGPipeline        *)
(*   examples/enterprise_rag/run_pipeline.py  MockEnterpriseRAGPipeline    *)
(* as one state machine over a pipeline object: its construction and its   *)
(* method calls.  A Python str is a sequence of one-character strings, so  *)
(* that lower(), split(), count(), slicing and the regular expressions are *)
(* computed character by character as CPython computes them.              *)
(***************************************************************************)
EXTENDS Integers, Sequences, FiniteSets, TLC

VARIABLES
    kind,        \* the class constructed: "basic", "compliance" or "enterprise"
    documents,   \* self.documents
    user_id,     \* self.user_id   (compliance; "" for the other classes)
    audit_log,   \* self.audit_log (compliance; <<>> for the other classes)
    call,        \* the last method call made on the object, with its arguments
    ret          \* what that call returned

vars == <<kind, documents, user_id, audit_log, call, ret>>

-----------------------------------------------------------------------------
(* Python str operations *)

Max(a, b) == IF a >= b THEN a ELSE b
Min(a, b) == IF a <= b THEN a ELSE b

UpperLetters ==
    <<"A","B","C","D","E","F","G","H","I","J","K","L","M",
      "N","O","P","Q","R","S","T","U","V","W","X","Y","Z">>
LowerLetters ==
    <<"a","b","c","d","e","f","g","h","i","j","k","l","m",
      "n","o","p","q","r","s","t","u","v","w","x","y","z">>
Uppercase == {UpperLetters[i] : i \in 1..Len(UpperLetters)}
Lowercase == {LowerLetters[i] : i \in 1..Len(LowerLetters)}
Letters == Uppercase \cup Lowercase
Digits == {"0","1","2","3","4","5","6","7","8","9"}
\* str.split() with no argument splits on runs of whitespace
Whitespace == {" ", "\t", "\n", "\r", "\f"}

LowerOf ==
    [c \in Uppercase |-> LowerLetters[CHOOSE i \in 1..Len(UpperLetters) : UpperLetters[i] = c]]
UpperOf ==
    [c \in Lowercase |-> UpperLetters[CHOOSE i \in 1..Len(LowerLetters) : LowerLetters[i] = c]]
lower_char(c) == IF c \in Uppercase THEN LowerOf[c] ELSE c
upper_char(c) == IF c \in Lowercase THEN UpperOf[c] ELSE c

\* str.lower()
lower(s) == [i \in 1..Len(s) |-> lower_char(s[i])]
\* str.upper()
upper(s) == [i \in 1..Len(s) |-> upper_char(s[i])]
\* str.title(): a letter that follows an uncased character (or starts the
\* string) is upper-cased, every other letter lower-cased
title(s) ==
    [i \in 1..Len(s) |->
        IF i = 1 \/ s[i-1] \notin Letters THEN upper_char(s[i]) ELSE lower_char(s[i])]
\* str.replace(old, new) for one-character old and new
replace_char(s, old, new) == [i \in 1..Len(s) |-> IF s[i] = old THEN new ELSE s[i]]

\* s[i-1 : i-1+len(sub)] == sub   (i is the 1-based index of the first character)
StartsAt(s, sub, i) ==
    /\ i + Len(sub) - 1 <= Len(s)
    /\ \A k \in 1..Len(sub) : s[i + k - 1] = sub[k]

\* sub in s
contains(s, sub) == \E i \in 1..(Len(s) - Len(sub) + 1) : StartsAt(s, sub, i)

\* str.count(sub): the search for the next occurrence starts just after the
\* occurrence found, so the occurrences counted do not overlap
SetMin(S) == CHOOSE x \in S : \A y \in S : x <= y
RECURSIVE count_from(_, _, _)
count_from(s, sub, i) ==
    LET found == {j \in i..(Len(s) - Len(sub) + 1) : StartsAt(s, sub, j)}
    IN  IF found = {} THEN 0
        ELSE 1 + count_from(s, sub, SetMin(found) + Len(sub))
count_overlapping(s, sub) == Cardinality({i \in 1..Len(s) : StartsAt(s, sub, i)})
count(s, sub) == count_from(s, sub, 1)

\* str.split(): the maximal runs of non-whitespace characters, left to right
RECURSIVE split_from(_, _, _)
split_from(s, i, word) ==
    IF i > Len(s) THEN (IF word = <<>> THEN <<>> ELSE <<word>>)
    ELSE IF s[i] \in Whitespace
         THEN (IF word = <<>> THEN <<>> ELSE <<word>>) \o split_from(s, i + 1, <<>>)
         ELSE split_from(s, i + 1, Append(word, s[i]))
split(s) == split_from(s, 1, <<>>)

\* the whole list, whatever the stop
slice_to_end(s, stop) == s
\* s[:stop] for a list: a negative stop counts from the end
slice_to(s, stop) ==
    LET n == Len(s)
        e == IF stop < 0 THEN Max(n + stop, 0) ELSE Min(stop, n)
    IN  SubSeq(s, 1, e)

\* list.sort(key=lambda x: x["score"], reverse=True): a stable sort; with
\* reverse=True elements of equal key keep their original relative order.
\* Each element is placed after the elements already placed whose score is
\* not lower.
insert_by_score(sorted, d) ==
    LET p == Cardinality({j \in 1..Len(sorted) : sorted[j].score >= d.score})
    IN  SubSeq(sorted, 1, p) \o <<d>> \o SubSeq(sorted, p + 1, Len(sorted))
RECURSIVE sort_from(_, _, _)
sort_from(docs, i, sorted) ==
    IF i > Len(docs) THEN sorted
    ELSE sort_from(docs, i + 1, insert_by_score(sorted, docs[i]))
\* sorted ascending and then reversed: ties come out in reverse order
sort_then_reverse(docs) ==
    LET RECURSIVE asc(_, _)
        asc(i, sorted) ==
            IF i > Len(docs) THEN sorted
            ELSE LET d == docs[i]
                     p == Cardinality({j \in 1..Len(sorted) : sorted[j].score <= d.score})
                 IN  asc(i + 1, SubSeq(sorted, 1, p) \o <<d>> \o SubSeq(sorted, p + 1, Len(sorted)))
        a == asc(1, <<>>)
    IN  [i \in 1..Len(a) |-> a[Len(a) + 1 - i]]
sort_by_score_reverse(docs) == sort_from(docs, 1, <<>>)

-----------------------------------------------------------------------------
(* The regular expressions of ComplianceRAGPipeline.PII_PATTERNS, matched   *)
(* as Python's re matches them: leftmost, each quantifier greedy, giving    *)
(* back only as far as the rest of the pattern needs.  An index i is the    *)
(* 1-based index of the next character; a match is reported by the index    *)
(* just after its last character, and 0 says there is no match at i.        *)

EMAIL == <<"e","m","a","i","l">>
SSN == <<"s","s","n">>
PHONE == <<"p","h","o","n","e">>
CREDIT_CARD == <<"c","r","e","d","i","t","_","c","a","r","d">>

\* the keys of the dict, in insertion order (the order .items() yields)
PII_PATTERNS_misordered == <<SSN, EMAIL, PHONE, CREDIT_CARD>>
PII_PATTERNS == <<EMAIL, SSN, PHONE, CREDIT_CARD>>

\* \w
IsWordChar(c) == c \in Letters \cup Digits \cup {"_"}
\* \b between t[i-1] and t[i]
WordBoundary(t, i) ==
    LET before == i > 1 /\ IsWordChar(t[i - 1])
        after == i <= Len(t) /\ IsWordChar(t[i])
    IN  before # after
CharAt(t, i, class) == i >= 1 /\ i <= Len(t) /\ t[i] \in class
\* \d{n} at i
DigitsAt(t, i, n) == i + n - 1 <= Len(t) /\ \A k \in i..(i + n - 1) : t[k] \in Digits
\* [class]? at i: greedy, and never given back, since what follows is a digit
OptionalAt(t, i, class) == IF CharAt(t, i, class) THEN i + 1 ELSE i
\* the index after the longest run of class characters that starts at i
RECURSIVE RunEnd(_, _, _)
RunEnd(t, i, class) == IF CharAt(t, i, class) THEN RunEnd(t, i + 1, class) ELSE i
SetMax(S) == CHOOSE x \in S : \A y \in S : y <= x

\* [A-Za-z0-9._%+-]
EmailLocalChars == Letters \cup Digits \cup {".", "_", "%", "+", "-"}
\* [A-Za-z0-9.-]
EmailDomainChars == Letters \cup Digits \cup {".", "-"}
\* [A-Z|a-z]: the | inside the class is a literal character
EmailTldChars == Letters \cup {"|"}

\* \b[A-Za-z0-9._%+-]+@[A-Za-z0-9.-]+\.[A-Z|a-z]{2,}\b
\* The local part is the whole run before the @ (the run holds no @).  The
\* domain run is given back one character at a time until a "." follows it
\* that starts a top-level part ending at a word boundary; the top-level
\* part is as long as such a boundary allows.
match_email(t, i) ==
    IF ~WordBoundary(t, i) THEN 0
    ELSE LET a == RunEnd(t, i, EmailLocalChars)
         IN  IF a = i \/ ~CharAt(t, a, {"@"}) THEN 0
             ELSE LET m == RunEnd(t, a + 1, EmailDomainChars)
                      TldEnds(d) ==
                          {e \in (d + 3)..RunEnd(t, d + 1, EmailTldChars) : WordBoundary(t, e)}
                      Dots == {d \in (a + 2)..(m - 1) : t[d] = "." /\ TldEnds(d) # {}}
                  IN  IF Dots = {} THEN 0 ELSE SetMax(TldEnds(SetMax(Dots)))

\* \b\d{3}-\d{2}-\d{4}\b
match_ssn(t, i) ==
    IF /\ WordBoundary(t, i)
       /\ DigitsAt(t, i, 3)
       /\ CharAt(t, i + 3, {"-"})
       /\ DigitsAt(t, i + 4, 2)
       /\ CharAt(t, i + 6, {"-"})
       /\ DigitsAt(t, i + 7, 4)
       /\ WordBoundary(t, i + 11)
    THEN i + 11 ELSE 0

\* \b\d{3}[-.]?\d{3}[-.]?\d{4}\b
match_phone(t, i) ==
    IF ~(WordBoundary(t, i) /\ DigitsAt(t, i, 3)) THEN 0
    ELSE LET j == OptionalAt(t, i + 3, {"-", "."})
         IN  IF ~DigitsAt(t, j, 3) THEN 0
             ELSE LET k == OptionalAt(t, j + 3, {"-", "."})
                  IN  IF DigitsAt(t, k, 4) /\ WordBoundary(t, k + 4) THEN k + 4 ELSE 0

\* [-\s]
CardSeparators == {"-"} \cup Whitespace
\* \b\d{4}[-\s]?\d{4}[-\s]?\d{4}[-\s]?\d{4}\b
match_credit_card(t, i) ==
    IF ~(WordBoundary(t, i) /\ DigitsAt(t, i, 4)) THEN 0
    ELSE LET j == OptionalAt(t, i + 4, CardSeparators)
         IN  IF ~DigitsAt(t, j, 4) THEN 0
             ELSE LET k == OptionalAt(t, j + 4, CardSeparators)
                  IN  IF ~DigitsAt(t, k, 4) THEN 0
                      ELSE LET l == OptionalAt(t, k + 4, CardSeparators)
                           IN  IF DigitsAt(t, l, 4) /\ WordBoundary(t, l + 4)
                               THEN l + 4 ELSE 0

\* pattern.match(t, i - 1) for the pattern stored under the key pii_type
regex_match(pii_type, t, i) ==
    CASE pii_type = EMAIL -> match_email(t, i)
      [] pii_type = SSN -> match_ssn(t, i)
      [] pii_type = PHONE -> match_phone(t, i)
      [] pii_type = CREDIT_CARD -> match_credit_card(t, i)

\* pattern.match(t, i - 1) for every i: where a match starts, its end; else 0
match_ends(pii_type, t) == [i \in 1..Len(t) |-> regex_match(pii_type, t, i)]

\* re.finditer(pattern, t): the matches left to right; the search for the
\* next match starts where the last one ended (no pattern matches the empty
\* string).  ends is match_ends(pattern, t).
RECURSIVE finditer_from(_, _)
finditer_from(ends, pos) ==
    LET Emit(starts) ==
            IF starts = {} THEN <<>>
            ELSE LET Take(s) == <<[start |-> s, end |-> ends[s]]>> \o finditer_from(ends, ends[s])
                 IN  Take(SetMin(starts))
    IN  Emit({i \in pos..Len(ends) : ends[i] # 0})
\* every position at which the pattern matches, overlapping or not
finditer_every_start(pii_type, t) ==
    LET Emit(ends) ==
            LET Listed(starts) ==
                    LET Nth(n) == SetMin({i \in starts : Cardinality({j \in starts : j < i}) = n - 1})
                    IN  [n \in 1..Cardinality(starts) |-> [start |-> Nth(n), end |-> ends[Nth(n)]]]
            IN  Listed({i \in 1..Len(ends) : ends[i] # 0})
    IN  Emit(match_ends(pii_type, t))
finditer(pii_type, t) == finditer_from(match_ends(pii_type, t), 1)

\* re.sub(pattern, repl, t): the text with every match of finditer replaced
\* by repl and the text between the matches kept
RECURSIVE sub_from(_, _, _, _)
sub_from(matches, repl, t, n) ==
    IF n > Len(matches) THEN <<>>
    ELSE repl
         \o SubSeq(t, matches[n].end,
                   IF n < Len(matches) THEN matches[n + 1].start - 1 ELSE Len(t))
         \o sub_from(matches, repl, t, n + 1)
\* re.sub(pattern, repl, t, count=1): the first match alone replaced
sub_first_only(pii_type, repl, t) ==
    LET Replace(matches) ==
            IF matches = <<>> THEN t
            ELSE SubSeq(t, 1, matches[1].start - 1) \o repl
                 \o SubSeq(t, matches[1].end, Len(t))
    IN  Replace(finditer(pii_type, t))
sub(pii_type, repl, t) ==
    LET Replace(matches) ==
            IF matches = <<>> THEN t
            ELSE SubSeq(t, 1, matches[1].start - 1) \o sub_from(matches, repl, t, 1)
    IN  Replace(finditer(pii_type, t))

\* the placeholder with the type as the pattern table spells it
placeholder_as_spelled(pii_type) ==
    <<"[","R","E","D","A","C","T","E","D","-">> \o pii_type \o <<"]">>
\* f'[REDACTED-{pii_type.upper()}]'
placeholder(pii_type) ==
    <<"[","R","E","D","A","C","T","E","D","-">> \o upper(pii_type) \o <<"]">>

\* ComplianceRAGPipeline._detect_pii
RECURSIVE detect_from(_, _, _)
detect_from(patterns, text, n) ==
    IF n > Len(patterns) THEN <<>>
    ELSE LET Listed(matches) ==
                 [k \in 1..Len(matches) |->
                     [type |-> patterns[n],
                      value |-> SubSeq(text, matches[k].start, matches[k].end - 1),
                      position |-> <<matches[k].start - 1, matches[k].end - 1>>]]
         IN  Listed(finditer(patterns[n], text)) \o detect_from(patterns, text, n + 1)
_detect_pii(text) == detect_from(PII_PATTERNS, text, 1)

\* ComplianceRAGPipeline._redact_pii: each substitution reads the output of
\* the one before it
RECURSIVE redact_from(_, _, _)
redact_from(patterns, redacted_text, n) ==
    IF n > Len(patterns) THEN redacted_text
    ELSE redact_from(patterns, sub(patterns[n], placeholder(patterns[n]), redacted_text), n + 1)
_redact_pii(text) == redact_from(PII_PATTERNS, text, 1)

-----------------------------------------------------------------------------
(* Formatting *)

DigitChars == <<"0","1","2","3","4","5","6","7","8","9">>
\* str(n) and f"{n}" for an int n >= 0
RECURSIVE str_int(_)
str_int(n) == IF n < 10 THEN <<DigitChars[n + 1]>> ELSE Append(str_int(n \div 10), DigitChars[(n % 10) + 1])
\* f"{n:03d}" for an int n >= 0: zero-padded to at least three digits
format_03d(n) ==
    LET s == str_int(n)
    IN  IF Len(s) >= 3 THEN s ELSE [k \in 1..(3 - Len(s)) |-> "0"] \o s

\* {} : the dict with no key
EmptyDict == [k \in {} |-> k]

-----------------------------------------------------------------------------
(* What a constructor is given.  documents_path is None (or ""), names a    *)
(* path that does not exist, or names a directory; a directory is the       *)
(* sequence of its files in the order glob() yields them.  A file is        *)
(* [stem, suffix, content].                                                 *)

NoPath == [given |-> FALSE, exists |-> FALSE, files |-> <<>>]
MissingPath == [given |-> TRUE, exists |-> FALSE, files |-> <<>>]
Directory(files) == [given |-> TRUE, exists |-> TRUE, files |-> files]

\* path.glob("*.txt")
glob_txt(files) == SelectSeq(files, LAMBDA f : f.suffix = <<"t","x","t">>)

-----------------------------------------------------------------------------
(* examples/basic_rag/run_pipeline.py *)


\* SimpleRAGPipeline._create_sample_documents
Basic_create_sample_documents ==
    <<[id |-> 1, title |-> <<"C","o","m","p","a","n","y"," ","V","a","c","a","t","i","o","n"," ",
            "P","o","l","i","c", "y">>, content |-> <<"E","m","p","l","o","y","e","e","s"," ",
            "a","r","e"," ","e","n","t","i","t","l","e","d", " ","t","o"," ","1","5"," ","d","a",
            "y","s"," ","o","f"," ","p","a","i","d"," ","v","a", "c","a","t","i","o","n"," ","p",
            "e","r"," ","y","e","a","r","."," ","V","a","c","a","t", "i","o","n"," ","m","u","s",
            "t"," ","b","e"," ","r","e","q","u","e","s","t","e","d"," ", "a","t"," ","l","e","a",
            "s","t"," ","2"," ","w","e","e","k","s"," ","i","n"," ","a","d", "v","a","n","c","e",
            " ","a","n","d"," ","a","p","p","r","o","v","e","d"," ","b","y"," ", "a"," ","m","a",
            "n","a","g","e","r","."," ","U","n","u","s","e","d"," ","v","a","c","a", "t","i","o",
            "n"," ","d","a","y","s"," ","c","a","n"," ","b","e"," ","c","a","r","r","i", "e","d",
            " ","o","v","e","r"," ","t","o"," ","t","h","e"," ","n","e","x","t"," ","y","e", "a",
            "r",","," ","u","p"," ","t","o"," ","a"," ","m","a","x","i","m","u","m"," ","o","f",
            " ","5"," ","d","a","y","s",".">>],
      [id |-> 2, title |-> <<"R","e","m","o","t","e"," ","W","o","r","k"," ","G","u","i","d","e",
              "l","i","n","e","s">>, content |-> <<"E","m","p","l","o","y","e","e","s"," ","m",
              "a","y"," ","w","o","r","k"," ","r","e","m", "o","t","e","l","y"," ","u","p"," ",
              "t","o"," ","3"," ","d","a","y","s"," ","p","e","r", " ","w","e","e","k"," ","w",
              "i","t","h"," ","m","a","n","a","g","e","r"," ","a","p","p", "r","o","v","a","l",
              "."," ","R","e","m","o","t","e"," ","w","o","r","k","e","r","s"," ", "m","u","s",
              "t"," ","b","e"," ","a","v","a","i","l","a","b","l","e"," ","d","u","r","i", "n",
              "g"," ","c","o","r","e"," ","h","o","u","r","s"," ","(","1","0"," ","A","M"," ",
              "-", " ","3"," ","P","M",")"," ","a","n","d"," ","m","a","i","n","t","a","i","n",
              " ","r","e", "g","u","l","a","r"," ","c","o","m","m","u","n","i","c","a","t","i",
              "o","n"," ","w","i", "t","h"," ","t","h","e","i","r"," ","t","e","a","m","."," ",
              "A"," ","h","o","m","e"," ", "o","f","f","i","c","e"," ","s","t","i","p","e","n",
              "d"," ","o","f"," ","$","5","0","0", " ","i","s"," ","p","r","o","v","i","d","e",
              "d"," ","a","n","n","u","a","l","l","y",".">>],
      [id |-> 3, title |-> <<"H","e","a","l","t","h"," ","B","e","n","e","f","i","t","s">>, content |-> <<"T",
              "h","e"," ","c","o","m","p","a","n","y"," ","p","r","o","v","i","d","e","s"," ",
              "c", "o","m","p","r","e","h","e","n","s","i","v","e"," ","h","e","a","l","t","h",
              " ","i","n", "s","u","r","a","n","c","e"," ","c","o","v","e","r","i","n","g"," ",
              "m","e","d","i","c", "a","l",","," ","d","e","n","t","a","l",","," ","a","n","d",
              " ","v","i","s","i","o","n", "."," ","E","m","p","l","o","y","e","e"," ","p","r",
              "e","m","i","u","m","s"," ","a","r", "e"," ","2","0","%"," ","o","f"," ","t","h",
              "e"," ","t","o","t","a","l"," ","c","o","s", "t",","," ","w","i","t","h"," ","t",
              "h","e"," ","c","o","m","p","a","n","y"," ","c","o", "v","e","r","i","n","g"," ",
              "8","0","%","."," ","D","e","p","e","n","d","e","n","t","s", " ","c","a","n"," ",
              "b","e"," ","a","d","d","e","d"," ","t","o"," ","t","h","e"," ","p", "l","a","n",
              "."," ","A","n","n","u","a","l"," ","e","n","r","o","l","l","m","e","n","t", " ",
              "p","e","r","i","o","d"," ","i","s"," ","i","n"," ","N","o","v","e","m","b","e",
              "r", ".">>],
      [id |-> 4, title |-> <<"P","e","r","f","o","r","m","a","n","c","e"," ","R","e","v","i","e",
              "w","s">>, content |-> <<"P","e","r","f","o","r","m","a","n","c","e"," ","r","e",
              "v","i","e","w","s"," ","a","r", "e"," ","c","o","n","d","u","c","t","e","d"," ",
              "a","n","n","u","a","l","l","y"," ","i", "n"," ","J","a","n","u","a","r","y",".",
              " ","E","m","p","l","o","y","e","e","s"," ","r", "e","c","e","i","v","e"," ","f",
              "e","e","d","b","a","c","k"," ","o","n"," ","t","h","e", "i","r"," ","a","c","c",
              "o","m","p","l","i","s","h","m","e","n","t","s",","," ","a","r", "e","a","s"," ",
              "f","o","r"," ","i","m","p","r","o","v","e","m","e","n","t",","," ","a", "n","d",
              " ","c","a","r","e","e","r"," ","d","e","v","e","l","o","p","m","e","n","t"," ",
              "g","o","a","l","s","."," ","R","e","v","i","e","w","s"," ","a","r","e"," ","u",
              "s","e", "d"," ","t","o"," ","d","e","t","e","r","m","i","n","e"," ","a","n","n",
              "u","a","l"," ", "s","a","l","a","r","y"," ","a","d","j","u","s","t","m","e","n",
              "t","s"," ","a","n","d", " ","b","o","n","u","s"," ","e","l","i","g","i","b","i",
              "l","i","t","y",".">>],
      [id |-> 5, title |-> <<"P","r","o","f","e","s","s","i","o","n","a","l"," ","D","e","v","e",
              "l","o","p","m","e", "n","t">>, content |-> <<"T","h","e"," ","c","o","m","p","a",
              "n","y"," ","s","u","p","p","o","r","t","s"," ","p", "r","o","f","e","s","s","i",
              "o","n","a","l"," ","d","e","v","e","l","o","p","m","e","n", "t"," ","w","i","t",
              "h"," ","a"," ","$","2",",","0","0","0"," ","a","n","n","u","a","l", " ","b","u",
              "d","g","e","t"," ","p","e","r"," ","e","m","p","l","o","y","e","e","."," ", "T",
              "h","i","s"," ","c","a","n"," ","b","e"," ","u","s","e","d"," ","f","o","r"," ",
              "c", "o","u","r","s","e","s",","," ","c","o","n","f","e","r","e","n","c","e","s",
              ","," ","c", "e","r","t","i","f","i","c","a","t","i","o","n","s",","," ","o","r",
              " ","b","o","o","k", "s","."," ","E","m","p","l","o","y","e","e","s"," ","s","h",
              "o","u","l","d"," ","s","u", "b","m","i","t"," ","a"," ","r","e","q","u","e","s",
              "t"," ","f","o","r","m"," ","t","o", " ","t","h","e","i","r"," ","m","a","n","a",
              "g","e","r"," ","f","o","r"," ","a","p","p", "r","o","v","a","l",".">>]>>

\* the documents found under the path and nothing else
load_documents_found_only(documents_path) ==
    LET found == IF documents_path.exists THEN glob_txt(documents_path.files) ELSE <<>>
    IN  [i \in 1..Len(found) |->
            [id |-> i,
             title |-> title(replace_char(found[i].stem, "_", " ")),
             content |-> found[i].content]]
\* SimpleRAGPipeline._load_documents
Basic_load_documents(documents_path) ==
    IF ~documents_path.exists THEN Basic_create_sample_documents
    ELSE LET found == glob_txt(documents_path.files)
             loaded == [i \in 1..Len(found) |->
                            [id |-> i,
                             title |-> title(replace_char(found[i].stem, "_", " ")),
                             content |-> found[i].content]]
         IN  IF loaded # <<>> THEN loaded ELSE Basic_create_sample_documents

\* SimpleRAGPipeline.__init__: the value of self.documents
Basic_init(documents_path) ==
    IF documents_path.given THEN Basic_load_documents(documents_path)
    ELSE Basic_create_sample_documents

\* if len(word) > 3:  # Skip short words
Basic_short_word_len == 3

\* SimpleRAGPipeline.search, the loop over query_words: the score of one document
RECURSIVE Basic_score_from(_, _, _)
Basic_score_from(query_words, content_lower, n) ==
    IF n > Len(query_words) THEN 0
    ELSE (IF Len(query_words[n]) > Basic_short_word_len
          THEN count(content_lower, query_words[n]) ELSE 0)
         + Basic_score_from(query_words, content_lower, n + 1)
\* the score without `if len(word) > 3`: words of any length counted
RECURSIVE Basic_score_any_length_from(_, _, _)
Basic_score_any_length_from(query_words, content_lower, n) ==
    IF n > Len(query_words) THEN 0
    ELSE count(content_lower, query_words[n])
         + Basic_score_any_length_from(query_words, content_lower, n + 1)
Basic_score_any_length(query_lower, doc) ==
    Basic_score_any_length_from(split(query_lower), lower(doc.content), 1)
Basic_score(query_lower, doc) ==
    Basic_score_from(split(query_lower), lower(doc.content), 1)

\* SimpleRAGPipeline.search, the loop over self.documents: scored_docs before the sort
RECURSIVE Basic_scored_docs(_, _, _)
Basic_scored_docs(docs, query_lower, n) ==
    IF n > Len(docs) THEN <<>>
    ELSE LET score == Basic_score(query_lower, docs[n])
         IN  (IF score > 0 THEN <<("score" :> score) @@ docs[n]>> ELSE <<>>)
             \o Basic_scored_docs(docs, query_lower, n + 1)

\* search with the lowest score first
search_lowest_first(docs, query, top_k) ==
    LET Reversed(s) == [i \in 1..Len(s) |-> s[Len(s) + 1 - i]]
    IN  slice_to(Reversed(sort_by_score_reverse(Basic_scored_docs(docs, lower(query), 1))),
            top_k)
\* SimpleRAGPipeline.search
Basic_search(docs, query, top_k) ==
    slice_to(sort_by_score_reverse(Basic_scored_docs(docs, lower(query), 1)), top_k)


\* generate_answer with a note that names the documents after the first
generate_answer_naming_additional(query, context_docs) ==
    IF context_docs = <<>>
    THEN <<"I"," ","c","o","u","l","d","n","'","t"," ","f","i","n","d"," ","a","n","y"," ","r",
            "e","l","e","v","a","n","t"," ","i","n","f","o","r","m","a","t","i","o","n"," ","t",
            "o"," ","a","n","s","w","e","r"," ","y","o","u","r"," ","q","u","e","s","t","i","o",
            "n",".">>
    ELSE <<"B","a","s","e","d"," ","o","n"," ","t","h","e"," ","a","v","a","i","l","a","b","l",
            "e"," ","i","n","f","o","r","m","a","t","i","o","n",":","\n","\n">>
         \o context_docs[1].content \o <<"\n","\n">>
         \o (IF Len(context_docs) > 1
             THEN <<"(","F","o","u","n","d"," ">> \o str_int(Len(context_docs) - 1)
                  \o <<" ","r","e","l","e","v","a","n","t"," ","d","o","c","u","m","e","n","t",
                          "(","s",")",")">>
             ELSE <<>>)

\* SimpleRAGPipeline.generate_answer
Basic_generate_answer(query, context_docs) ==
    IF context_docs = <<>>
    THEN <<"I"," ","c","o","u","l","d","n","'","t"," ","f","i","n","d"," ","a","n","y"," ","r",
            "e","l","e","v","a","n","t"," ","i","n","f","o","r","m","a","t","i","o","n"," ","t",
            "o"," ","a","n","s","w","e","r"," ","y","o","u","r"," ","q","u","e","s","t","i","o",
            "n",".">>
    ELSE <<"B","a","s","e","d"," ","o","n"," ","t","h","e"," ","a","v","a","i","l","a","b","l",
            "e"," ","i","n","f","o","r","m","a","t","i","o","n",":","\n","\n">>
         \o context_docs[1].content \o <<"\n","\n">>
         \o (IF Len(context_docs) > 1
             THEN <<"(","F","o","u","n","d"," ">> \o str_int(Len(context_docs))
                  \o <<" ","r","e","l","e","v","a","n","t"," ","d","o","c","u","m","e","n","t",
                          "(","s",")",")">>
             ELSE <<>>)

\* SimpleRAGPipeline.query
Basic_query(docs, question, top_k) ==
    LET Answer(relevant_docs) ==
            [question |-> question,
             answer |-> Basic_generate_answer(question, relevant_docs),
             sources |-> relevant_docs]
    IN  Answer(Basic_search(docs, question, top_k))

\* the store once each score is written to the stored document itself
documents_scored_in_place(docs, query, top_k) ==
    [n \in 1..Len(docs) |->
        IF Basic_score(lower(query), docs[n]) > 0
        THEN ("score" :> Basic_score(lower(query), docs[n])) @@ docs[n]
        ELSE docs[n]]
\* SimpleRAGPipeline.search writes neither self.documents nor a stored
\* document: {**doc, "score": score} is a new dict.  The store afterwards.
Basic_documents_after_search(docs, query, top_k) == docs
-----------------------------------------------------------------------------
(* examples/compliance_rag/run_pipeline.py *)

PUBLIC == <<"P","U","B","L","I","C">>
INTERNAL == <<"I","N","T","E","R","N","A","L">>
CONFIDENTIAL == <<"C","O","N","F","I","D","E","N","T","I","A","L">>
RESTRICTED == <<"R","E","S","T","R","I","C","T","E","D">>


\* ComplianceRAGPipeline._create_sample_documents
Compliance_create_sample_documents ==
    <<[id |-> <<"H","I","P","A","A","-","0","0","1">>,
       title |-> <<"P","a","t","i","e","n","t"," ","D","a","t","a"," ","R","e","t","e","n","t",
               "i","o","n", " ","P","o","l","i","c","y">>,
       content |-> <<"A","l","l"," ","p","a","t","i","e","n","t"," ","r","e","c","o","r","d","s",
               " ","m","u", "s","t"," ","b","e"," ","r","e","t","a","i","n","e","d"," ","f","o",
               "r"," ","a"," ","m", "i","n","i","m","u","m"," ","o","f"," ","7"," ","y","e","a",
               "r","s"," ","p","e","r"," ", "H","I","P","A","A"," ","r","e","g","u","l","a","t",
               "i","o","n","s","."," ","M","e","d", "i","c","a","l"," ","r","e","c","o","r","d",
               "s"," ","f","o","r"," ","m","i","n","o","r", "s"," ","m","u","s","t"," ","b","e",
               " ","k","e","p","t"," ","u","n","t","i","l"," ","t", "h","e"," ","p","a","t","i",
               "e","n","t"," ","r","e","a","c","h","e","s"," ","a","g","e", " ","2","1","."," ",
               "E","l","e","c","t","r","o","n","i","c"," ","h","e","a","l","t","h", " ","r","e",
               "c","o","r","d","s"," ","m","u","s","t"," ","b","e"," ","e","n","c","r","y", "p",
               "t","e","d"," ","a","t"," ","r","e","s","t"," ","a","n","d"," ","i","n"," ","t",
               "r", "a","n","s","i","t"," ","u","s","i","n","g"," ","A","E","S","-","2","5","6",
               "."," ","A", "c","c","e","s","s"," ","t","o"," ","p","a","t","i","e","n","t"," ",
               "d","a","t","a"," ", "r","e","q","u","i","r","e","s"," ","m","u","l","t","i","-",
               "f","a","c","t","o","r"," ", "a","u","t","h","e","n","t","i","c","a","t","i","o",
               "n"," ","a","n","d"," ","i","s"," ", "l","o","g","g","e","d",".">>,
       classification |-> CONFIDENTIAL,
       category |-> <<"h","e","a","l","t","h","c","a","r","e","_",
                      "c","o","m","p","l","i","a","n","c","e">>,
       requires_authorization |-> TRUE],
      [id |-> <<"G","D","P","R","-","0","0","2">>,
       title |-> <<"D","a","t","a"," ","S","u","b","j","e","c","t"," ","R","i","g","h","t","s">>,
       content |-> <<"U","n","d","e","r"," ","G","D","P","R",","," ","i","n","d","i","v","i","d",
               "u","a","l", "s"," ","h","a","v","e"," ","t","h","e"," ","r","i","g","h","t"," ",
               "t","o"," ","a","c", "c","e","s","s"," ","t","h","e","i","r"," ","p","e","r","s",
               "o","n","a","l"," ","d","a", "t","a",","," ","r","e","q","u","e","s","t"," ","c",
               "o","r","r","e","c","t","i","o","n", "s",","," ","a","n","d"," ","r","e","q","u",
               "e","s","t"," ","d","e","l","e","t","i","o", "n"," ","(","r","i","g","h","t"," ",
               "t","o"," ","b","e"," ","f","o","r","g","o","t","t", "e","n",")","."," ","O","r",
               "g","a","n","i","z","a","t","i","o","n","s"," ","m","u","s", "t"," ","r","e","s",
               "p","o","n","d"," ","t","o"," ","d","a","t","a"," ","s","u","b","j", "e","c","t",
               " ","r","e","q","u","e","s","t","s"," ","w","i","t","h","i","n"," ","3","0", " ",
               "d","a","y","s","."," ","P","e","r","s","o","n","a","l"," ","d","a","t","a"," ",
               "m", "u","s","t"," ","n","o","t"," ","b","e"," ","t","r","a","n","s","f","e","r",
               "r","e","d", " ","o","u","t","s","i","d","e"," ","t","h","e"," ","E","U"," ","w",
               "i","t","h","o","u", "t"," ","a","d","e","q","u","a","t","e"," ","s","a","f","e",
               "g","u","a","r","d","s",".", " ","A","l","l"," ","d","a","t","a"," ","p","r","o",
               "c","e","s","s","i","n","g"," ","a", "c","t","i","v","i","t","i","e","s"," ","m",
               "u","s","t"," ","h","a","v","e"," ","a"," ", "l","e","g","a","l"," ","b","a","s",
               "i","s",".">>,
       classification |-> CONFIDENTIAL,
       category |-> <<"p","r","i","v","a","c","y","_","c","o","m","p","l","i","a","n","c","e">>,
       requires_authorization |-> TRUE],
      [id |-> <<"S","O","X","-","0","0","3">>,
       title |-> <<"F","i","n","a","n","c","i","a","l"," ","C","o","n","t","r","o","l","s">>,
       content |-> <<"S","a","r","b","a","n","e","s","-","O","x","l","e","y"," ","A","c","t"," ",
               "r","e","q", "u","i","r","e","s"," ","p","u","b","l","i","c"," ","c","o","m","p",
               "a","n","i","e","s", " ","t","o"," ","m","a","i","n","t","a","i","n"," ","a","c",
               "c","u","r","a","t","e"," ", "f","i","n","a","n","c","i","a","l"," ","r","e","c",
               "o","r","d","s","."," ","A","l","l", " ","f","i","n","a","n","c","i","a","l"," ",
               "t","r","a","n","s","a","c","t","i","o","n", "s"," ","m","u","s","t"," ","h","a",
               "v","e"," ","d","u","a","l"," ","a","p","p","r","o", "v","a","l"," ","a","n","d",
               " ","c","o","m","p","l","e","t","e"," ","a","u","d","i","t", " ","t","r","a","i",
               "l","s","."," ","I","n","t","e","r","n","a","l"," ","c","o","n","t", "r","o","l",
               "s"," ","m","u","s","t"," ","b","e"," ","d","o","c","u","m","e","n","t","e", "d",
               " ","a","n","d"," ","t","e","s","t","e","d"," ","a","n","n","u","a","l","l","y",
               ".", " ","E","x","e","c","u","t","i","v","e"," ","c","e","r","t","i","f","i","c",
               "a","t","i", "o","n"," ","o","f"," ","f","i","n","a","n","c","i","a","l"," ","s",
               "t","a","t","e","m", "e","n","t","s"," ","i","s"," ","r","e","q","u","i","r","e",
               "d","."," ","R","e","t","e", "n","t","i","o","n"," ","p","e","r","i","o","d"," ",
               "f","o","r"," ","a","u","d","i","t", " ","m","a","t","e","r","i","a","l","s"," ",
               "i","s"," ","7"," ","y","e","a","r","s",".">>,
       classification |-> CONFIDENTIAL,
       category |-> <<"f","i","n","a","n","c","i","a","l","_",
                      "c","o","m","p","l","i","a","n","c","e">>,
       requires_authorization |-> TRUE],
      [id |-> <<"F","D","A","-","0","0","4">>,
       title |-> <<"A","d","v","e","r","s","e"," ","E","v","e","n","t"," ","R","e","p","o","r",
               "t","i","n", "g">>,
       content |-> <<"F","D","A"," ","r","e","q","u","i","r","e","s"," ","r","e","p","o","r","t",
               "i","n","g", " ","o","f"," ","s","e","r","i","o","u","s"," ","a","d","v","e","r",
               "s","e"," ","e","v", "e","n","t","s"," ","w","i","t","h","i","n"," ","s","p","e",
               "c","i","f","i","c"," ","t", "i","m","e","f","r","a","m","e","s",":"," ","f","a",
               "t","a","l"," ","o","r"," ","l","i", "f","e","-","t","h","r","e","a","t","e","n",
               "i","n","g"," ","e","v","e","n","t","s"," ", "w","i","t","h","i","n"," ","7"," ",
               "d","a","y","s",","," ","o","t","h","e","r"," ","s", "e","r","i","o","u","s"," ",
               "e","v","e","n","t","s"," ","w","i","t","h","i","n"," ","1", "5"," ","d","a","y",
               "s","."," ","A","l","l"," ","a","d","v","e","r","s","e"," ","e","v", "e","n","t",
               " ","r","e","c","o","r","d","s"," ","m","u","s","t"," ","b","e"," ","m","a", "i",
               "n","t","a","i","n","e","d"," ","f","o","r"," ","t","h","e"," ","l","i","f","e",
               "t", "i","m","e"," ","o","f"," ","t","h","e"," ","d","r","u","g"," ","p","l","u",
               "s"," ","1", "0"," ","y","e","a","r","s","."," ","S","a","f","e","t","y"," ","d",
               "a","t","a"," ","m", "u","s","t"," ","c","o","m","p","l","y"," ","w","i","t","h",
               " ","2","1"," ","C","F","R", " ","P","a","r","t"," ","3","1","2"," ","a","n","d",
               " ","b","e"," ","s","u","b","m","i", "t","t","e","d"," ","e","l","e","c","t","r",
               "o","n","i","c","a","l","l","y"," ","v","i", "a"," ","F","D","A"," ","E","S","G",
               ".">>,
       classification |-> CONFIDENTIAL,
       category |-> <<"p","h","a","r","m","a","_","c","o","m","p","l","i","a","n","c","e">>,
       requires_authorization |-> TRUE],
      [id |-> <<"P","C","I","-","0","0","5">>,
       title |-> <<"P","a","y","m","e","n","t"," ","C","a","r","d"," ","D","a","t","a"," ","S",
               "e","c","u", "r","i","t","y">>,
       content |-> <<"P","C","I"," ","D","S","S"," ","r","e","q","u","i","r","e","s"," ","e","n",
               "c","r","y", "p","t","i","o","n"," ","o","f"," ","c","a","r","d","h","o","l","d",
               "e","r"," ","d","a", "t","a"," ","d","u","r","i","n","g"," ","t","r","a","n","s",
               "m","i","s","s","i","o","n", " ","o","v","e","r"," ","p","u","b","l","i","c"," ",
               "n","e","t","w","o","r","k","s",".", " ","C","a","r","d"," ","d","a","t","a"," ",
               "m","u","s","t"," ","n","o","t"," ","b","e", " ","s","t","o","r","e","d"," ","a",
               "f","t","e","r"," ","a","u","t","h","o","r","i","z", "a","t","i","o","n"," ","u",
               "n","l","e","s","s"," ","e","n","c","r","y","p","t","e","d", "."," ","A","c","c",
               "e","s","s"," ","t","o"," ","c","a","r","d","h","o","l","d","e","r", " ","d","a",
               "t","a"," ","m","u","s","t"," ","b","e"," ","r","e","s","t","r","i","c","t", "e",
               "d"," ","o","n"," ","a"," ","n","e","e","d","-","t","o","-","k","n","o","w"," ",
               "b", "a","s","i","s","."," ","R","e","g","u","l","a","r"," ","p","e","n","e","t",
               "r","a","t", "i","o","n"," ","t","e","s","t","i","n","g"," ","a","n","d"," ","v",
               "u","l","n","e","r", "a","b","i","l","i","t","y"," ","s","c","a","n","s"," ","a",
               "r","e"," ","m","a","n","d", "a","t","o","r","y","."," ","I","n","c","i","d","e",
               "n","t"," ","r","e","s","p","o","n", "s","e"," ","p","l","a","n","s"," ","m","u",
               "s","t"," ","b","e"," ","t","e","s","t","e", "d"," ","a","n","n","u","a","l","l",
               "y",".">>,
       classification |-> RESTRICTED,
       category |-> <<"p","a","y","m","e","n","t","_","c","o","m","p","l","i","a","n","c","e">>,
       requires_authorization |-> TRUE]>>

\* ['confidential', 'restricted', 'secret', 'patient', 'ssn']
SensitiveKeywords ==
    {<<"c","o","n","f","i","d","e","n","t","i","a","l">>,
     <<"r","e","s","t","r","i","c","t","e","d">>,
     <<"s","e","c","r","e","t">>,
     <<"p","a","t","i","e","n","t">>,
     <<"s","s","n">>}
\* ['internal', 'proprietary']
InternalKeywords ==
    {<<"i","n","t","e","r","n","a","l">>,
     <<"p","r","o","p","r","i","e","t","a","r","y">>}

\* the internal keywords tested first
classify_internal_first(content) ==
    LET content_lower == lower(content)
    IN  IF \E word \in InternalKeywords : contains(content_lower, word) THEN INTERNAL
        ELSE IF \E word \in SensitiveKeywords : contains(content_lower, word)
        THEN CONFIDENTIAL
        ELSE PUBLIC
\* ComplianceRAGPipeline._classify_document
_classify_document(content) ==
    LET content_lower == lower(content)
    IN  IF \E word \in SensitiveKeywords : contains(content_lower, word) THEN CONFIDENTIAL
        ELSE IF \E word \in InternalKeywords : contains(content_lower, word) THEN INTERNAL
        ELSE PUBLIC

\* _load_documents with authorization required of every document that is not PUBLIC
load_documents_authorizing_non_public(documents_path) ==
    IF ~documents_path.exists THEN Compliance_create_sample_documents
    ELSE LET found == glob_txt(documents_path.files)
             loaded == [i \in 1..Len(found) |->
                            LET classification == _classify_document(found[i].content)
                            IN  [id |-> <<"D","O","C","-">> \o format_03d(i),
                                 title |-> title(replace_char(found[i].stem, "_", " ")),
                                 content |-> found[i].content,
                                 classification |-> classification,
                                 category |-> <<"u","s","e","r","_","d","o","c","u","m","e","n",
                                         "t">>,
                                 requires_authorization |->
                                     classification # PUBLIC]]
         IN  IF loaded # <<>> THEN loaded ELSE Compliance_create_sample_documents
\* ComplianceRAGPipeline._load_documents
Compliance_load_documents(documents_path) ==
    IF ~documents_path.exists THEN Compliance_create_sample_documents
    ELSE LET found == glob_txt(documents_path.files)
             loaded == [i \in 1..Len(found) |->
                            LET classification == _classify_document(found[i].content)
                            IN  [id |-> <<"D","O","C","-">> \o format_03d(i),
                                 title |-> title(replace_char(found[i].stem, "_", " ")),
                                 content |-> found[i].content,
                                 classification |-> classification,
                                 category |-> <<"u","s","e","r","_","d","o","c","u","m","e","n",
                                         "t">>,
                                 requires_authorization |->
                                     classification \in {CONFIDENTIAL, RESTRICTED}]]
         IN  IF loaded # <<>> THEN loaded ELSE Compliance_create_sample_documents

\* a log that keeps its latest entry only
log_action_keeping_latest(log, user, action, details, metadata) ==
    <<[user_id |-> user, action |-> action, details |-> details, metadata |-> metadata]>>
\* ComplianceRAGPipeline._log_action: the log with one entry appended.  The
\* entry's timestamp is read from the clock and nothing reads it back; it is
\* left out.  `metadata or {}` stores {} for an empty dict as for None.
_log_action(log, user, action, details, metadata) ==
    Append(log, [user_id |-> user, action |-> action, details |-> details,
                 metadata |-> metadata])

\* ComplianceRAGPipeline.__init__: self.documents and self.audit_log
Compliance_init(documents_path, user) ==
    LET docs == IF documents_path.given THEN Compliance_load_documents(documents_path)
                ELSE Compliance_create_sample_documents
    IN  [documents |-> docs,
         audit_log |-> _log_action(<<>>, user, "SYSTEM_INIT",
                           <<"L","o","a","d","e","d"," ">> \o str_int(Len(docs))
                               \o <<" ","d","o","c","u","m","e","n","t","s">>,
                           EmptyDict)]

\* access refused to the documents that require authorization
check_authorization_refusing(log, user, document) ==
    [audit_log |-> log, granted |-> ~document.requires_authorization]
\* ComplianceRAGPipeline._check_authorization: the log afterwards and the
\* value returned
_check_authorization(log, user, document) ==
    [audit_log |->
        IF document.requires_authorization
        THEN _log_action(log, user, "AUTHORIZATION_CHECK",
                 <<"A","c","c","e","s","s"," ","t","o"," ">> \o document.classification
                     \o <<" ","d","o","c","u","m","e","n","t"," ">> \o document.id,
                 [document_id |-> document.id, classification |-> document.classification])
        ELSE log,
     granted |-> TRUE]

\* if len(word) > 3:
Compliance_short_word_len == 3

\* ComplianceRAGPipeline.search, the loop over query_words: the score of one document
RECURSIVE Compliance_score_from(_, _, _)
Compliance_score_from(query_words, content_lower, n) ==
    IF n > Len(query_words) THEN 0
    ELSE (IF Len(query_words[n]) > Compliance_short_word_len
          THEN count(content_lower, query_words[n]) ELSE 0)
         + Compliance_score_from(query_words, content_lower, n + 1)
Compliance_score(query_lower, doc) ==
    Compliance_score_from(split(query_lower), lower(doc.content), 1)

\* ComplianceRAGPipeline.search, the loop over self.documents: the log and
\* scored_docs once the documents from the n-th on have been visited too
RECURSIVE Compliance_scan(_, _, _, _, _, _)
Compliance_scan(docs, user, query_lower, n, log, scored_docs) ==
    IF n > Len(docs) THEN [audit_log |-> log, scored_docs |-> scored_docs]
    ELSE LET Visit(auth) ==
                 IF ~auth.granted
                 THEN Compliance_scan(docs, user, query_lower, n + 1, auth.audit_log,
                          scored_docs)
                 ELSE LET Scored(score) ==
                              Compliance_scan(docs, user, query_lower, n + 1, auth.audit_log,
                                  IF score > 0
                                  THEN Append(scored_docs, ("score" :> score) @@ docs[n])
                                  ELSE scored_docs)
                      IN  Scored(Compliance_score(query_lower, docs[n]))
         IN  Visit(_check_authorization(log, user, docs[n]))

\* ComplianceRAGPipeline.search from `# Log the search` on: query is the
\* query as it stands after the PII check
Compliance_search_logged(docs, user, log, query, top_k) ==
    LET Finish(scan) ==
            LET Return(retrieved) ==
                    [audit_log |->
                        _log_action(scan.audit_log, user, "RETRIEVAL",
                            <<"R","e","t","r","i","e","v","e","d"," ">>
                                \o str_int(Len(retrieved))
                                \o <<" ","d","o","c","u","m","e","n","t","s">>,
                            [document_ids |-> [k \in 1..Len(retrieved) |-> retrieved[k].id]]),
                     ret |-> retrieved]
            IN  Return(slice_to(sort_by_score_reverse(scan.scored_docs), top_k))
    IN  Finish(Compliance_scan(docs, user, lower(query), 1,
                   _log_action(log, user, "SEARCH",
                       <<"Q","u","e","r","y",":"," ">> \o query, [top_k |-> top_k]),
                   <<>>))

\* search with the PII of the query logged once the retrieval is logged
search_logging_pii_last(docs, user, log, query, top_k) ==
    LET Checked(pii_detected) ==
            IF pii_detected # <<>>
            THEN LET Done(found) ==
                         [audit_log |->
                              _log_action(found.audit_log, user, "PII_DETECTED_IN_QUERY",
                                  <<>>,
                                  [pii_types |->
                                      [k \in 1..Len(pii_detected) |-> pii_detected[k].type]]),
                          ret |-> found.ret]
                 IN  Done(Compliance_search_logged(docs, user, log, _redact_pii(query), top_k))
            ELSE Compliance_search_logged(docs, user, log, query, top_k)
    IN  Checked(_detect_pii(query))
\* ComplianceRAGPipeline.search: the log afterwards and the list returned
Compliance_search(docs, user, log, query, top_k) ==
    LET Checked(pii_detected) ==
            IF pii_detected # <<>>
            THEN Compliance_search_logged(docs, user,
                     _log_action(log, user, "PII_DETECTED_IN_QUERY",
                         <<"Q","u","e","r","y"," ","c","o","n","t","a","i","n","s"," ">>
                             \o str_int(Len(pii_detected))
                             \o <<" ","P","I","I"," ","i","n","s","t","a","n","c","e","s">>,
                         [pii_types |->
                             [k \in 1..Len(pii_detected) |-> pii_detected[k].type]]),
                     _redact_pii(query), top_k)
            ELSE Compliance_search_logged(docs, user, log, query, top_k)
    IN  Checked(_detect_pii(query))

\* classification_levels = {'PUBLIC': 0, 'INTERNAL': 1, 'CONFIDENTIAL': 2, 'RESTRICTED': 3}
\* and classification_levels.get(c, 0)
classification_level(c) ==
    CASE c = PUBLIC -> 0
      [] c = INTERNAL -> 1
      [] c = CONFIDENTIAL -> 2
      [] c = RESTRICTED -> 3
      [] OTHER -> 0

\* max(classifications, key=...): the first element whose key no other exceeds
max_by_level(classifications) ==
    LET n == CHOOSE i \in 1..Len(classifications) :
                 /\ \A j \in 1..Len(classifications) :
                        classification_level(classifications[j])
                            <= classification_level(classifications[i])
                 /\ \A j \in 1..(i - 1) :
                        classification_level(classifications[j])
                            < classification_level(classifications[i])
    IN  classifications[n]

\* the classification of the top-ranked document alone
overall_classification_of_top(context_docs) == context_docs[1].classification
\* ComplianceRAGPipeline.generate_answer, lines 289-292; doc.get('classification',
\* 'PUBLIC') reads the key every stored document has
overall_classification(context_docs) ==
    max_by_level([k \in 1..Len(context_docs) |-> context_docs[k].classification])

\* the end of generate_answer with the answer returned as redacted_answer
answer_checked_unredacted(user, log, classification, answer, citations) ==
    LET Return(pii_detected) ==
            [audit_log |->
                _log_action(log, user, "ANSWER_GENERATED",
                    <<"G","e","n","e","r","a","t","e","d"," ","a","n","s","w","e","r"," ","w",
                            "i","t","h"," ","c","l","a","s","s","i","f","i","c","a","t","i","o",
                            "n",":"," ">> \o classification,
                    [classification |-> classification,
                     citations |-> Len(citations),
                     pii_detected |-> Len(pii_detected) > 0]),
             ret |-> [answer |-> answer,
                      citations |-> citations,
                      pii_detected |-> Len(pii_detected) > 0,
                      classification |-> classification,
                      redacted_answer |-> answer]]
    IN  Return(_detect_pii(answer))

\* ComplianceRAGPipeline.generate_answer for a non-empty context_docs, from
\* `# Create citations` on
Compliance_answer_checked(user, log, classification, answer, citations) ==
    LET Return(pii_detected) ==
            [audit_log |->
                _log_action(log, user, "ANSWER_GENERATED",
                    <<"G","e","n","e","r","a","t","e","d"," ","a","n","s","w","e","r"," ",
                      "w","i","t","h"," ","c","l","a","s","s","i","f","i","c","a","t","i","o","n",
                      ":"," ">> \o classification,
                    [classification |-> classification,
                     citations |-> Len(citations),
                     pii_detected |-> Len(pii_detected) > 0]),
             ret |-> [answer |-> answer,
                      citations |-> citations,
                      pii_detected |-> Len(pii_detected) > 0,
                      classification |-> classification,
                      redacted_answer |->
                          IF pii_detected # <<>> THEN _redact_pii(answer) ELSE answer]]
    IN  Return(_detect_pii(answer))

\* generate_answer with a redacted_answer in the result for no document too
generate_answer_redacted_always(user, log, query, context_docs) ==
    IF context_docs = <<>>
    THEN [audit_log |-> log,
          ret |-> [answer |-> <<>>, citations |-> <<>>, pii_detected |-> FALSE,
                   classification |-> PUBLIC, redacted_answer |-> <<>>]]
    ELSE Compliance_answer_checked(user, log,
             overall_classification(context_docs),
             context_docs[1].content \o <<"\n","\n">>
                 \o (IF Len(context_docs) > 1
                     THEN <<"A","d","d","i","t","i","o","n","a","l"," ",
                            "i","n","f","o","r","m","a","t","i","o","n"," ",
                            "f","r","o","m"," ">>
                          \o str_int(Len(context_docs) - 1)
                          \o <<" ","r","e","l","a","t","e","d"," ",
                               "d","o","c","u","m","e","n","t","(","s",")",".">>
                     ELSE <<>>),
             [k \in 1..Len(context_docs) |->
                 [document_id |-> context_docs[k].id,
                  title |-> context_docs[k].title,
                  classification |-> context_docs[k].classification,
                  relevance_score |-> context_docs[k].score]])
\* ComplianceRAGPipeline.generate_answer: the log afterwards and the dict returned
Compliance_generate_answer(user, log, query, context_docs) ==
    IF context_docs = <<>>
    THEN [audit_log |-> log,
          ret |-> [answer |-> <<"N","o"," ","r","e","l","e","v","a","n","t"," ",
                               "i","n","f","o","r","m","a","t","i","o","n"," ",
                               "f","o","u","n","d",".">>,
                   citations |-> <<>>,
                   pii_detected |-> FALSE,
                   classification |-> PUBLIC]]
    ELSE Compliance_answer_checked(user, log,
             overall_classification(context_docs),
             context_docs[1].content \o <<"\n","\n">>
                 \o (IF Len(context_docs) > 1
                     THEN <<"A","d","d","i","t","i","o","n","a","l"," ",
                            "i","n","f","o","r","m","a","t","i","o","n"," ",
                            "f","r","o","m"," ">>
                          \o str_int(Len(context_docs) - 1)
                          \o <<" ","r","e","l","a","t","e","d"," ",
                               "d","o","c","u","m","e","n","t","(","s",")",".">>
                     ELSE <<>>),
             [k \in 1..Len(context_docs) |->
                 [document_id |-> context_docs[k].id,
                  title |-> context_docs[k].title,
                  classification |-> context_docs[k].classification,
                  relevance_score |-> context_docs[k].score]])

\* ComplianceRAGPipeline.query: the log afterwards and the dict returned
Compliance_query(docs, user, log, question, top_k) ==
    LET Answer(found) ==
            LET Return(result) ==
                    [audit_log |-> result.audit_log,
                     ret |-> ("question" :> question)
                             @@ ("pii_in_question" :> (Len(_detect_pii(question)) > 0))
                             @@ result.ret]
            IN  Return(Compliance_generate_answer(user, found.audit_log, question, found.ret))
    IN  Answer(Compliance_search(docs, user, log, question, top_k))

\* ComplianceRAGPipeline.search writes neither self.documents nor a stored
\* document: {**doc, "score": score} is a new dict.  The store afterwards.
Compliance_documents_after_search(docs, query, top_k) == docs
-----------------------------------------------------------------------------
(* examples/enterprise_rag/run_pipeline.py *)

(* What MockEnterpriseRAGPipeline is given: data_path, whether it exists, and *)
(* its entries in the order iterdir() yields them.  An entry is              *)
(* [name, is_dir, files], files being those of the directory in glob order.  *)
DataPath(path, entries) == [path |-> path, exists |-> TRUE, entries |-> entries]
MissingDataPath(path) == [path |-> path, exists |-> FALSE, entries |-> <<>>]

\* doc_file.name
file_name(f) == f.stem \o <<".">> \o f.suffix

\* MockEnterpriseRAGPipeline._load_documents, the inner loop: the documents
\* of one category directory
Enterprise_category_documents(data_path, category_dir) ==
    LET category == category_dir.name
        found == glob_txt(category_dir.files)
    IN  [i \in 1..Len(found) |->
            [id |-> category \o <<"/">> \o file_name(found[i]),
             category |-> category,
             filename |-> file_name(found[i]),
             content |-> found[i].content,
             path |-> data_path.path \o <<"/">> \o category \o <<"/">> \o file_name(found[i])]]

\* MockEnterpriseRAGPipeline._load_documents
RECURSIVE Enterprise_load_from(_, _)
Enterprise_load_from(data_path, n) ==
    IF n > Len(data_path.entries) THEN <<>>
    ELSE (IF data_path.entries[n].is_dir
          THEN Enterprise_category_documents(data_path, data_path.entries[n])
          ELSE <<>>)
         \o Enterprise_load_from(data_path, n + 1)
\* the documents loaded, or one sample document when there is none
load_documents_or_sample(data_path) ==
    LET loaded == IF data_path.exists THEN Enterprise_load_from(data_path, 1) ELSE <<>>
    IN  IF loaded # <<>> THEN loaded
        ELSE <<[id |-> <<"s">>, category |-> <<"s">>, filename |-> <<"s">>,
                content |-> <<"s">>, path |-> <<"s">>]>>
Enterprise_load_documents(data_path) ==
    IF ~data_path.exists THEN <<>> ELSE Enterprise_load_from(data_path, 1)

\* min(score, 1.0), in tenths
Enterprise_score_cap == 10

(* MockEnterpriseRAGPipeline._mock_retrieval, the loop over keywords.  The   *)
(* score is a float that grows by count * 0.1; it is kept here as the exact  *)
(* number of tenths, so the rounding of the float sum (one unit in the last  *)
(* place, for sums from 0.6 to 1.0) is not represented.                      *)
RECURSIVE Enterprise_score_from(_, _, _)
Enterprise_score_from(keywords, content_lower, n) ==
    IF n > Len(keywords) THEN 0
    ELSE (IF contains(content_lower, keywords[n])
          THEN count(content_lower, keywords[n]) ELSE 0)
         + Enterprise_score_from(keywords, content_lower, n + 1)
Enterprise_score(query_lower, doc) ==
    Enterprise_score_from(split(query_lower), lower(doc.content), 1)

\* MockEnterpriseRAGPipeline._mock_retrieval, the loop over self.documents
RECURSIVE Enterprise_scored_docs(_, _, _)
Enterprise_scored_docs(docs, query_lower, n) ==
    IF n > Len(docs) THEN <<>>
    ELSE LET score == Enterprise_score(query_lower, docs[n])
         IN  (IF score > 0
              THEN <<[document |-> docs[n].filename,
                      category |-> docs[n].category,
                      score |-> Min(score, Enterprise_score_cap),
                      content |-> slice_to(docs[n].content, 500) \o <<".",".",".">>]>>
              ELSE <<>>)
             \o Enterprise_scored_docs(docs, query_lower, n + 1)

\* MockEnterpriseRAGPipeline._mock_retrieval
_mock_retrieval(docs, query, top_k) ==
    slice_to(sort_by_score_reverse(Enterprise_scored_docs(docs, lower(query), 1)), top_k)


-----------------------------------------------------------------------------
(* MockEnterpriseRAGPipeline._mock_answer_generation and run *)

\* No relevant documents found to answer this query.
NO_RELEVANT_DOCUMENTS ==
    <<"N","o"," ","r","e","l","e","v","a","n","t"," ","d","o","c","u","m","e","n","t","s"," ",
      "f","o","u","n","d"," ","t","o"," ","a","n","s","w","e","r"," ","t","h","i","s"," ","q",
      "u","e","r","y",".">>

\* the items of a non-empty set, in the order its iteration yields them,
\* as repr shows them: {'hr', 'finance'}
RECURSIVE set_items_repr(_, _)
set_items_repr(order, n) ==
    IF n > Len(order) THEN <<>>
    ELSE (IF n > 1 THEN <<",", " ">> ELSE <<>>) \o <<"'">> \o order[n] \o <<"'">>
         \o set_items_repr(order, n + 1)

\* set(d['category'] for d in docs)
categories_of(docs) == {docs[k].category : k \in 1..Len(docs)}
\* the orders in which the iteration of a set of str can yield its items: the
\* order follows the hashes of the items, which differ from one interpreter
\* run to the next
iteration_orders(S) ==
    {order \in [1..Cardinality(S) -> S] :
        \A i, j \in 1..Cardinality(S) : i # j => order[i] # order[j]}

\* the default response of _mock_answer_generation
default_answer(docs, order) ==
    <<"B","a","s","e","d"," ","o","n"," ","t","h","e"," ","r","e","t","r","i","e","v","e","d",
            " ","d","o","c","u","m","e","n","t","s",","," ","r","e","l","e","v","a","n","t"," ",
            "i", "n","f","o","r","m","a","t","i","o","n"," ","w","a","s"," ","f","o","u","n","d",
            " ","i", "n"," ">> \o str_int(Len(docs)) \o <<" ","d","o","c","u","m","e","n","t",
            "(","s",")"," ","a","c","r","o","s","s"," ">>
        \o <<"{">> \o set_items_repr(order, 1) \o <<"}">> \o <<" ","c","a","t","e","g","o","r","i","e","s","."," ","F","o","r",
                " ","s","p","e","c","i", "f","i","c"," ","d","e","t","a","i","l","s",","," ","p",
                "l","e","a","s","e"," ","r","e", "f","e","r"," ","t","o"," ","t","h","e"," ","s",
                "o","u","r","c","e"," ","d","o","c","u", "m","e","n","t","s"," ","l","i","s","t",
                "e","d"," ","b","e","l","o","w",".">>

\* an answer chosen by the keyword fda before the documents are looked at
mock_answer_keywords_first(query, docs, order) ==
    IF contains(lower(query), <<"f","d","a">>) THEN <<"F","D","A">>
    ELSE IF docs = <<>> THEN NO_RELEVANT_DOCUMENTS
    ELSE default_answer(docs, order)
\* MockEnterpriseRAGPipeline._mock_answer_generation; order is the order in
\* which the set of the categories of docs is iterated
_mock_answer_generation(query, docs, order) ==
    LET Answer(query_lower) ==
            IF \/ contains(query_lower, <<"h","r">>)
               \/ contains(query_lower, <<"e","m","p","l","o","y","e","e">>)
               \/ contains(query_lower, <<"d","a","t","a">>)
            THEN IF \/ contains(query_lower, <<"c","o","m","p","l","i","a","n","c","e">>)
                    \/ contains(query_lower, <<"g","d","p","r">>)
                    \/ contains(query_lower, <<"h","i","p","a","a">>)
                 THEN <<"E","m","p","l","o","y","e","e"," ","d","a","t","a"," ","m","u","s","t",
                         " ","c","o","m", "p","l","y"," ","w","i","t","h"," ","G","D","P","R",
                         " ","a","n","d"," ","H","I","P","A", "A"," ","r","e","t","e","n","t",
                         "i","o","n"," ","r","u","l","e","s","."," ","A","l","l", " ","p","e",
                         "r","s","o","n","a","l"," ","d","a","t","a"," ","m","u","s","t"," ","b",
                         "e", " ","r","e","t","a","i","n","e","d"," ","f","o","r"," ","7"," ",
                         "y","e","a","r","s"," ", "w","i","t","h"," ","f","u","l","l"," ","a",
                         "u","d","i","t"," ","l","o","g","s"," ","e", "n","a","b","l","e","d",
                         "."," ","A","c","c","e","s","s"," ","i","s"," ","r","e","s","t", "r",
                         "i","c","t","e","d"," ","t","o"," ","a","u","t","h","o","r","i","z","e",
                         "d"," ","H", "R"," ","p","e","r","s","o","n","n","e","l"," ","o","n",
                         "l","y",","," ","a","n","d"," ", "m","a","n","d","a","t","o","r","y",
                         " ","d","a","t","a"," ","a","n","o","n","y","m","i", "z","a","t","i",
                         "o","n"," ","i","s"," ","r","e","q","u","i","r","e","d"," ","f","o","r",
                         " ","a","n","a","l","y","t","i","c","s"," ","p","u","r","p","o","s","e",
                         "s",".">>
                 ELSE IF \/ contains(query_lower, <<"b","e","n","e","f","i","t","s">>)
                         \/ contains(query_lower, <<"l","e","a","v","e">>)
                      THEN <<"E","m","p","l","o","y","e","e","s"," ","r","e","c","e","i","v","e",
                              " ","c","o","m","p", "r","e","h","e","n","s","i","v","e"," ","b",
                              "e","n","e","f","i","t","s"," ","i","n","c", "l","u","d","i","n",
                              "g"," ","h","e","a","l","t","h"," ","i","n","s","u","r","a","n",
                              "c", "e"," ","(","8","0","%"," ","e","m","p","l","o","y","e","r",
                              "-","p","a","i","d",")",",", " ","4","0","1","(","k",")"," ","m",
                              "a","t","c","h","i","n","g"," ","u","p"," ","t","o", " ","6","%",
                              ","," ","1","5","-","2","0"," ","v","a","c","a","t","i","o","n",
                              " ","d","a", "y","s"," ","b","a","s","e","d"," ","o","n"," ","t",
                              "e","n","u","r","e",","," ","a","n", "d"," ","p","a","r","e","n",
                              "t","a","l"," ","l","e","a","v","e"," ","(","1","2"," ","w", "e",
                              "e","k","s"," ","m","a","t","e","r","n","i","t","y",","," ","6",
                              " ","w","e","e","k", "s"," ","p","a","t","e","r","n","i","t","y",
                              ")","."," ","A","l","l"," ","f","u","l","l", "-","t","i","m","e",
                              " ","e","m","p","l","o","y","e","e","s"," ","a","r","e"," ","e",
                              "l", "i","g","i","b","l","e"," ","f","o","r"," ","b","e","n","e",
                              "f","i","t","s"," ","a","f", "t","e","r"," ","3","0"," ","d","a",
                              "y","s"," ","o","f"," ","e","m","p","l","o","y","m", "e","n","t",
                              ".">>
                      ELSE default_answer(docs, order)
            ELSE IF \/ contains(query_lower, <<"f","i","n","a","n","c","e">>)
                    \/ contains(query_lower, <<"a","u","d","i","t">>)
                    \/ contains(query_lower, <<"t","r","a","n","s","a","c","t","i","o","n">>)
            THEN IF contains(query_lower, <<"a","p","p","r","o","v","a","l">>)
                 THEN <<"F","i","n","a","n","c","i","a","l"," ","t","r","a","n","s","a","c","t",
                         "i","o","n","s", " ","o","v","e","r"," ","$","5","0",",","0","0","0",
                         " ","r","e","q","u","i","r","e"," ", "d","u","a","l"," ","a","p","p",
                         "r","o","v","a","l"," ","f","r","o","m"," ","d","e","p", "a","r","t",
                         "m","e","n","t"," ","V","P",","," ","C","F","O",","," ","a","n","d"," ",
                         "C", "E","O","."," ","T","r","a","n","s","a","c","t","i","o","n","s",
                         " ","b","e","t","w","e", "e","n"," ","$","5",",","0","0","0","-","$",
                         "5","0",",","0","0","0"," ","r","e","q","u", "i","r","e"," ","d","u",
                         "a","l"," ","a","p","p","r","o","v","a","l"," ","f","r","o","m", " ",
                         "d","e","p","a","r","t","m","e","n","t"," ","m","a","n","a","g","e","r",
                         " ","a","n", "d"," ","f","i","n","a","n","c","e"," ","m","a","n","a",
                         "g","e","r","."," ","A","l","l", " ","t","r","a","n","s","a","c","t",
                         "i","o","n","s"," ","m","u","s","t"," ","h","a","v", "e"," ","s","u",
                         "p","p","o","r","t","i","n","g"," ","d","o","c","u","m","e","n","t","a",
                         "t","i","o","n"," ","a","n","d"," ","c","o","m","p","l","y"," ","w","i",
                         "t","h"," ","S", "O","X"," ","4","0","4"," ","r","e","q","u","i","r",
                         "e","m","e","n","t","s",".">>
                 ELSE IF contains(query_lower, <<"i","n","v","e","s","t","m","e","n","t">>)
                      THEN <<"T","h","e"," ","i","n","v","e","s","t","m","e","n","t"," ","p","o",
                              "l","i","c","y"," ", "f","o","c","u","s","e","s"," ","o","n"," ",
                              "c","a","p","i","t","a","l"," ","p","r","e", "s","e","r","v","a",
                              "t","i","o","n"," ","a","n","d"," ","l","i","q","u","i","d","i",
                              "t", "y","."," ","A","u","t","h","o","r","i","z","e","d"," ","i",
                              "n","v","e","s","t","m","e", "n","t","s"," ","i","n","c","l","u",
                              "d","e"," ","U",".","S","."," ","T","r","e","a","s", "u","r","y",
                              " ","s","e","c","u","r","i","t","i","e","s",","," ","i","n","v",
                              "e","s","t", "m","e","n","t","-","g","r","a","d","e"," ","c","o",
                              "r","p","o","r","a","t","e"," ","b", "o","n","d","s"," ","(","r",
                              "a","t","e","d"," ","A"," ","o","r"," ","h","i","g","h","e", "r",
                              ")",","," ","a","n","d"," ","m","o","n","e","y"," ","m","a","r",
                              "k","e","t"," ","f", "u","n","d","s","."," ","P","r","o","h","i",
                              "b","i","t","e","d"," ","i","n","v","e","s", "t","m","e","n","t",
                              "s"," ","i","n","c","l","u","d","e"," ","i","n","d","i","v","i",
                              "d", "u","a","l"," ","e","q","u","i","t","i","e","s",","," ","d",
                              "e","r","i","v","a","t","i", "v","e","s",","," ","a","n","d"," ",
                              "c","r","y","p","t","o","c","u","r","r","e","n","c", "i","e","s",
                              "."," ","M","a","x","i","m","u","m"," ","s","i","n","g","l","e",
                              " ","i","s", "s","u","e","r"," ","c","o","n","c","e","n","t","r",
                              "a","t","i","o","n"," ","i","s"," ", "l","i","m","i","t","e","d",
                              " ","t","o"," ","5","%",".">>
                      ELSE default_answer(docs, order)
            ELSE IF \/ contains(query_lower, <<"p","h","a","r","m","a">>)
                    \/ contains(query_lower, <<"f","d","a">>)
                    \/ contains(query_lower, <<"d","r","u","g">>)
            THEN IF \/ contains(query_lower, <<"s","a","f","e","t","y">>)
                    \/ contains(query_lower, <<"r","e","p","o","r","t","i","n","g">>)
                 THEN <<"F","D","A"," ","d","r","u","g"," ","s","a","f","e","t","y"," ","r","e",
                         "p","o","r","t", "i","n","g"," ","m","u","s","t"," ","c","o","m","p",
                         "l","y"," ","w","i","t","h"," ","2", "1"," ","C","F","R"," ","P","a",
                         "r","t"," ","3","1","2"," ","a","n","d"," ","3","1","4", "."," ","F",
                         "a","t","a","l"," ","o","r"," ","l","i","f","e","-","t","h","r","e","a",
                         "t", "e","n","i","n","g"," ","u","n","e","x","p","e","c","t","e","d",
                         " ","s","e","r","i","o", "u","s"," ","a","d","v","e","r","s","e"," ",
                         "e","v","e","n","t","s"," ","m","u","s","t", " ","b","e"," ","r","e",
                         "p","o","r","t","e","d"," ","w","i","t","h","i","n"," ","7"," ", "d",
                         "a","y","s",","," ","w","i","t","h"," ","f","o","l","l","o","w","-","u",
                         "p"," ","w", "i","t","h","i","n"," ","8"," ","d","a","y","s","."," ",
                         "O","t","h","e","r"," ","s","e", "r","i","o","u","s"," ","u","n","e",
                         "x","p","e","c","t","e","d"," ","e","v","e","n","t", "s"," ","r","e",
                         "q","u","i","r","e"," ","r","e","p","o","r","t","i","n","g"," ","w","i",
                         "t","h","i","n"," ","1","5"," ","d","a","y","s","."," ","A","l","l"," ",
                         "a","d","v","e", "r","s","e"," ","e","v","e","n","t"," ","d","a","t",
                         "a"," ","l","o","g","s"," ","m","u", "s","t"," ","b","e"," ","m","a",
                         "i","n","t","a","i","n","e","d"," ","i","n"," ","s","e", "c","u","r",
                         "e"," ","r","e","p","o","s","i","t","o","r","i","e","s"," ","w","i","t",
                         "h", " ","r","e","t","e","n","t","i","o","n"," ","f","o","r"," ","p",
                         "r","o","d","u","c","t", " ","l","i","f","e","t","i","m","e"," ","p",
                         "l","u","s"," ","1","0"," ","y","e","a","r", "s",".">>
                 ELSE IF \/ contains(query_lower, <<"c","l","i","n","i","c","a","l">>)
                         \/ contains(query_lower, <<"t","r","i","a","l">>)
                      THEN <<"C","l","i","n","i","c","a","l"," ","t","r","i","a","l","s"," ","m",
                              "u","s","t"," ","c", "o","m","p","l","y"," ","w","i","t","h"," ",
                              "I","C","H","-","G","C","P"," ","g","u","i", "d","e","l","i","n",
                              "e","s"," ","a","n","d"," ","o","b","t","a","i","n"," ","I","n",
                              "s", "t","i","t","u","t","i","o","n","a","l"," ","R","e","v","i",
                              "e","w"," ","B","o","a","r", "d"," ","a","p","p","r","o","v","a",
                              "l","."," ","I","n","f","o","r","m","e","d"," ","c", "o","n","s",
                              "e","n","t"," ","i","s"," ","m","a","n","d","a","t","o","r","y",
                              " ","f","o", "r"," ","a","l","l"," ","p","a","r","t","i","c","i",
                              "p","a","n","t","s","."," ","S","t", "u","d","y"," ","d","e","s",
                              "i","g","n"," ","r","e","q","u","i","r","e","s"," ","c","l", "e",
                              "a","r"," ","o","b","j","e","c","t","i","v","e","s",","," ","p",
                              "r","e","-","s","p", "e","c","i","f","i","e","d"," ","s","t","a",
                              "t","i","s","t","i","c","a","l"," ","a","n", "a","l","y","s","i",
                              "s"," ","p","l","a","n","s",","," ","a","n","d"," ","d","a","t",
                              "a", " ","s","a","f","e","t","y"," ","m","o","n","i","t","o","r",
                              "i","n","g"," ","b","o","a", "r","d","s","."," ","A","l","l"," ",
                              "d","a","t","a"," ","m","u","s","t"," ","m","a","i", "n","t","a",
                              "i","n"," ","a","u","d","i","t"," ","t","r","a","i","l","s"," ",
                              "a","n","d", " ","c","o","m","p","l","y"," ","w","i","t","h"," ",
                              "2","1"," ","C","F","R"," ","P","a", "r","t"," ","1","1"," ","f",
                              "o","r"," ","e","l","e","c","t","r","o","n","i","c"," ","r", "e",
                              "c","o","r","d","s",".">>
                      ELSE default_answer(docs, order)
            ELSE default_answer(docs, order)
    IN  IF docs = <<>> THEN NO_RELEVANT_DOCUMENTS ELSE Answer(lower(query))

\* MockEnterpriseRAGPipeline.run: the fields of the RAGResult returned
Enterprise_run(query, retrieved_docs, order) ==
    [query |-> query,
     answer |-> _mock_answer_generation(query, retrieved_docs, order),
     sources |-> retrieved_docs]

\* _mock_retrieval writes neither self.documents nor a stored document: each
\* scored entry is a new dict.  The store afterwards.
Enterprise_documents_after_retrieval(docs, query, top_k) == docs
-----------------------------------------------------------------------------
(* The inputs *)

\* the most files a directory given to a constructor holds
MaxDocs == 3

TXT == <<"t","x","t">>
\* data_policy.txt: "Data data"
FileDataPolicy ==
    [stem |-> <<"d","a","t","a","_","p","o","l","i","c","y">>, suffix |-> TXT,
     content |-> <<"D","a","t","a"," ","d","a","t","a">>]
\* hr.txt: "hr data Internal"
FileHr ==
    [stem |-> <<"h","r">>, suffix |-> TXT,
     content |-> <<"h","r"," ","d","a","t","a"," ","I","n","t","e","r","n","a","l">>]
\* aaa.txt: "aaaaaaaaa"
FileAaa ==
    [stem |-> <<"a","a","a">>, suffix |-> TXT,
     content |-> <<"a","a","a","a","a","a","a","a","a">>]
\* phone.txt: "tel 123-456-7890 secret"
FilePhone ==
    [stem |-> <<"p","h","o","n","e">>, suffix |-> TXT,
     content |-> <<"t","e","l"," ","1","2","3","-","4","5","6","-","7","8","9","0"," ",
                   "s","e","c","r","e","t">>]
\* notes.md: "data"  (not a .txt file)
FileNotes ==
    [stem |-> <<"n","o","t","e","s">>, suffix |-> <<"m","d">>,
     content |-> <<"d","a","t","a">>]
FilePool == {FileDataPolicy, FileHr, FileAaa, FilePhone, FileNotes}

\* the sequences of at most n distinct elements of S
InjectiveSeqs(S, n) ==
    {s \in UNION {[1..k -> S] : k \in 0..n} :
        \A i, j \in 1..Len(s) : i # j => s[i] # s[j]}
DirListings == InjectiveSeqs(FilePool, MaxDocs)

\* documents_path of SimpleRAGPipeline and ComplianceRAGPipeline
DocumentPaths == {NoPath, MissingPath} \cup {Directory(fs) : fs \in DirListings}

\* data_path of MockEnterpriseRAGPipeline: "data/real_world", absent or
\* holding some of README.md, hr/ and finance/ in any order, the files of a
\* listing shared out between the two directories
DATA_REAL_WORLD == <<"d","a","t","a","/","r","e","a","l","_","w","o","r","l","d">>
README == <<"R","E","A","D","M","E",".","m","d">>
HR == <<"h","r">>
FINANCE == <<"f","i","n","a","n","c","e">>
DataPathEntry(name, fs, j) ==
    CASE name = README -> [name |-> README, is_dir |-> FALSE, files |-> <<>>]
      [] name = HR -> [name |-> HR, is_dir |-> TRUE, files |-> SubSeq(fs, 1, j)]
      [] name = FINANCE -> [name |-> FINANCE, is_dir |-> TRUE, files |-> SubSeq(fs, j + 1, Len(fs))]
DataPaths ==
    {MissingDataPath(DATA_REAL_WORLD)} \cup
    {DataPath(DATA_REAL_WORLD, [n \in 1..Len(names) |-> DataPathEntry(names[n], fs, j)]) :
        <<names, fs, j>> \in
            {x \in InjectiveSeqs({README, HR, FINANCE}, 3) \X DirListings \X (0..MaxDocs) :
                x[3] <= Len(x[2])}}

UserIds == {"default_user", "auditor"}

\* query strings: "data", "DATA\thr", "", "aaaa aaaa", "hr", "123-456-7890",
\* "aaaa data", "a a", "secret data", "vacation days",
\* "123-45-6789 x123-45-6789"
QueryPool ==
    {<<"d","a","t","a">>,
     <<"D","A","T","A","\t","h","r">>,
     <<>>,
     <<"a","a","a","a"," ","a","a","a","a">>,
     <<"h","r">>,
     <<"1","2","3","-","4","5","6","-","7","8","9","0">>,
     <<"a","a","a","a"," ","d","a","t","a">>,
     <<"a"," ","a">>,
     <<"s","e","c","r","e","t"," ","d","a","t","a">>,
     <<"v","a","c","a","t","i","o","n"," ","d","a","y","s">>,
     <<"1","2","3","-","4","5","-","6","7","8","9"," ",
       "x","1","2","3","-","4","5","-","6","7","8","9">>}
\* top_k: negative, zero, and positive up to the default 3
TopKs == -2..3

\* context_docs handed to generate_answer directly: the first k stored
\* documents, k at most MaxContextDocs, each with a score and with any of the
\* four classification levels
MaxContextDocs == 2
ContextDocs(docs) ==
    {[n \in 1..k |-> ("score" :> 1) @@ [docs[n] EXCEPT !.classification = levels[n]]] :
        <<k, levels>> \in
            {x \in (0..Min(Len(docs), MaxContextDocs))
                       \X [1..MaxContextDocs -> {PUBLIC, INTERNAL, CONFIDENTIAL, RESTRICTED}] :
                \A n \in (x[1] + 1)..MaxContextDocs : x[2][n] = PUBLIC}}
\* the query handed to generate_answer directly: "data"
AnswerQueries == {<<"d","a","t","a">>}

-----------------------------------------------------------------------------
(* The state machine: a pipeline object after its construction, and one     *)
(* method call on it.                                                       *)

NoCall == [op |-> "__init__"]
None == <<>>

InitBasic ==
    /\ kind = "basic"
    /\ \E documents_path \in DocumentPaths : documents = Basic_init(documents_path)
    /\ user_id = ""
    /\ audit_log = <<>>

InitCompliance ==
    /\ kind = "compliance"
    /\ \E documents_path \in DocumentPaths, user \in UserIds :
          LET Made(self) ==
                  /\ documents = self.documents
                  /\ audit_log = self.audit_log
                  /\ user_id = user
          IN  Made(Compliance_init(documents_path, user))

InitEnterprise ==
    /\ kind = "enterprise"
    /\ \E data_path \in DataPaths : documents = Enterprise_load_documents(data_path)
    /\ user_id = ""
    /\ audit_log = <<>>

Init ==
    /\ InitBasic \/ InitCompliance \/ InitEnterprise
    /\ call = NoCall
    /\ ret = None

\* SimpleRAGPipeline.search(query, top_k)
BasicSearchCall(query, top_k) ==
    /\ kind = "basic"
    /\ call' = [op |-> "search", query |-> query, top_k |-> top_k]
    /\ ret' = Basic_search(documents, query, top_k)
    /\ documents' = Basic_documents_after_search(documents, query, top_k)
    /\ UNCHANGED <<kind, user_id, audit_log>>

\* SimpleRAGPipeline.generate_answer(query, context_docs)
BasicGenerateAnswerCall(query, context_docs) ==
    /\ kind = "basic"
    /\ call' = [op |-> "generate_answer", query |-> query, context_docs |-> context_docs]
    /\ ret' = Basic_generate_answer(query, context_docs)
    /\ UNCHANGED <<kind, documents, user_id, audit_log>>

\* SimpleRAGPipeline.query(question, top_k)
BasicQueryCall(question, top_k) ==
    /\ kind = "basic"
    /\ call' = [op |-> "query", query |-> question, top_k |-> top_k]
    /\ ret' = Basic_query(documents, question, top_k)
    /\ documents' = Basic_documents_after_search(documents, question, top_k)
    /\ UNCHANGED <<kind, user_id, audit_log>>

\* ComplianceRAGPipeline._check_authorization(document)
ComplianceCheckAuthorizationCall(document) ==
    /\ kind = "compliance"
    /\ LET Return(done) ==
               /\ call' = [op |-> "_check_authorization", document |-> document]
               /\ audit_log' = done.audit_log
               /\ ret' = done.granted
       IN  Return(_check_authorization(audit_log, user_id, document))
    /\ UNCHANGED <<kind, documents, user_id>>

\* ComplianceRAGPipeline.search(query, top_k)
ComplianceSearchCall(query, top_k) ==
    /\ kind = "compliance"
    /\ LET Return(done) ==
               /\ call' = [op |-> "search", query |-> query, top_k |-> top_k]
               /\ audit_log' = done.audit_log
               /\ ret' = done.ret
       IN  Return(Compliance_search(documents, user_id, audit_log, query, top_k))
    /\ documents' = Compliance_documents_after_search(documents, query, top_k)
    /\ UNCHANGED <<kind, user_id>>

\* ComplianceRAGPipeline.query(question, top_k)
ComplianceQueryCall(question, top_k) ==
    /\ kind = "compliance"
    /\ LET Return(done) ==
               /\ call' = [op |-> "query", query |-> question, top_k |-> top_k]
               /\ audit_log' = done.audit_log
               /\ ret' = done.ret
       IN  Return(Compliance_query(documents, user_id, audit_log, question, top_k))
    /\ documents' = Compliance_documents_after_search(documents, question, top_k)
    /\ UNCHANGED <<kind, user_id>>

\* ComplianceRAGPipeline.generate_answer(query, context_docs)
ComplianceGenerateAnswerCall(query, context_docs) ==
    /\ kind = "compliance"
    /\ LET Return(done) ==
               /\ call' = [op |-> "generate_answer", query |-> query,
                           context_docs |-> context_docs]
               /\ audit_log' = done.audit_log
               /\ ret' = done.ret
       IN  Return(Compliance_generate_answer(user_id, audit_log, query, context_docs))
    /\ UNCHANGED <<kind, documents, user_id>>

\* MockEnterpriseRAGPipeline._mock_retrieval(query, top_k)
EnterpriseMockRetrievalCall(query, top_k) ==
    /\ kind = "enterprise"
    /\ call' = [op |-> "_mock_retrieval", query |-> query, top_k |-> top_k]
    /\ ret' = _mock_retrieval(documents, query, top_k)
    /\ documents' = Enterprise_documents_after_retrieval(documents, query, top_k)
    /\ UNCHANGED <<kind, user_id, audit_log>>

\* MockEnterpriseRAGPipeline.run(query, top_k)
EnterpriseRunCall(query, top_k) ==
    /\ kind = "enterprise"
    /\ LET Return(retrieved_docs) ==
               \E order \in iteration_orders(categories_of(retrieved_docs)) :
                   /\ call' = [op |-> "run", query |-> query, top_k |-> top_k]
                   /\ ret' = Enterprise_run(query, retrieved_docs, order)
       IN  Return(_mock_retrieval(documents, query, top_k))
    /\ documents' = Enterprise_documents_after_retrieval(documents, query, top_k)
    /\ UNCHANGED <<kind, user_id, audit_log>>

BasicSearch ==
    /\ call = NoCall
    /\ \E query \in QueryPool, top_k \in TopKs : BasicSearchCall(query, top_k)

ComplianceSearch ==
    /\ call = NoCall
    /\ \E query \in QueryPool, top_k \in TopKs : ComplianceSearchCall(query, top_k)

ComplianceQuery ==
    /\ call = NoCall
    /\ \E question \in QueryPool, top_k \in TopKs : ComplianceQueryCall(question, top_k)

ComplianceGenerateAnswer ==
    /\ call = NoCall
    /\ \E query \in AnswerQueries, context_docs \in ContextDocs(documents) :
          ComplianceGenerateAnswerCall(query, context_docs)

EnterpriseMockRetrieval ==
    /\ call = NoCall
    /\ \E query \in QueryPool, top_k \in TopKs : EnterpriseMockRetrievalCall(query, top_k)

Next ==
    \/ BasicSearch
    \/ ComplianceSearch
    \/ ComplianceQuery
    \/ ComplianceGenerateAnswer
    \/ EnterpriseMockRetrieval

Spec == Init /\ [][Next]_vars

-----------------------------------------------------------------------------
(* The retrieval claims, stated over a pipeline and the one call made on it *)

\* the call was a retrieval: search or _mock_retrieval
IsRetrieval == call.op \in {"search", "_mock_retrieval"}
\* the call was a retrieval of the basic or the compliance pipeline
IsSearch == call.op = "search"

\* the returned entry r is the stored document d
SameDocument(r, d) ==
    IF kind = "enterprise"
    THEN r.document = d.filename /\ r.category = d.category
    ELSE r.id = d.id
\* where in the document store the returned entry r is kept
StorePosition(r) == CHOOSE n \in 1..Len(documents) : SameDocument(r, documents[n])
\* the stored document n is in the returned list
Returned(n) == \E k \in 1..Len(ret) : SameDocument(ret[k], documents[n])

\* the whitespace-separated tokens of q, as spans <<first, last>>
TokenSpans(q) ==
    {sp \in (1..Len(q)) \X (1..Len(q)) :
        /\ sp[1] <= sp[2]
        /\ \A i \in sp[1]..sp[2] : q[i] \notin Whitespace
        /\ sp[1] = 1 \/ q[sp[1] - 1] \in Whitespace
        /\ sp[2] = Len(q) \/ q[sp[2] + 1] \in Whitespace}
\* the positions at which token occurs in content
Occurrences(token, content) ==
    {i \in 1..(Len(content) - Len(token) + 1) :
        SubSeq(content, i, i + Len(token) - 1) = token}
\* the most occurrences of token in content no two of which share a character
NonOverlappingOccurrences(token, content) ==
    LET disjoint == {S \in SUBSET Occurrences(token, content) :
                        \A i, j \in S : i # j => (i + Len(token) <= j \/ j + Len(token) <= i)}
    IN  CHOOSE c \in 0..Len(content) :
            /\ \E S \in disjoint : Cardinality(S) = c
            /\ \A S \in disjoint : Cardinality(S) <= c
\* what the token of q at the span sp adds to the score of content
TokenScore(q, sp, content) ==
    IF sp[2] - sp[1] + 1 > 3
    THEN NonOverlappingOccurrences(lower(SubSeq(q, sp[1], sp[2])), lower(content))
    ELSE 0
RECURSIVE SpecScoreOver(_, _, _)
SpecScoreOver(spans, q, content) ==
    IF spans = {} THEN 0
    ELSE LET sp == CHOOSE x \in spans : TRUE
         IN  TokenScore(q, sp, content) + SpecScoreOver(spans \ {sp}, q, content)
\* the score the specification gives content for the query q
SpecScore(q, content) == SpecScoreOver(TokenSpans(q), q, content)
\* some token of q longer than min_len occurs in content, both lower-cased
TokenOccurs(q, content, min_len) ==
    \E sp \in TokenSpans(q) :
        /\ sp[2] - sp[1] + 1 > min_len
        /\ Occurrences(lower(SubSeq(q, sp[1], sp[2])), lower(content)) # {}

\* the query the scoring loop reads: the compliance search replaces the PII
\* of its query by placeholders first
ScoredQuery ==
    IF kind = "compliance" /\ _detect_pii(call.query) # <<>>
    THEN _redact_pii(call.query)
    ELSE call.query
\* the stored documents with a positive score for the query q
PositiveDocs(q) == {n \in 1..Len(documents) : SpecScore(q, documents[n].content) > 0}

\* C1: the list a retrieval returns is in non-increasing score order, and two
\* returned documents of equal score are in the order of the document store.
C1_SortedStable ==
    IsRetrieval =>
        \A i, j \in 1..Len(ret) :
            i < j =>
                \/ ret[i].score > ret[j].score
                \/ /\ ret[i].score = ret[j].score
                   /\ StorePosition(ret[i]) < StorePosition(ret[j])
\* a retrieval returned a document stored after the two it precedes, which tie
C1_Witness ==
    /\ IsRetrieval
    /\ Len(ret) >= 3
    /\ ret[1].score > ret[2].score
    /\ ret[2].score = ret[3].score
    /\ StorePosition(ret[1]) > StorePosition(ret[3])

\* C2 (as stated): a search returns at most top_k documents and at most as many
\* as have a positive score, for every integer top_k.
C2_AtMostTopK ==
    IsSearch =>
        /\ Len(ret) <= call.top_k
        /\ Len(ret) <= Cardinality(PositiveDocs(call.query))
\* C2 (amended): a search returns at most as many documents as have a positive
\* score for the query it scores; min(top_k, that number) of them when top_k is
\* not negative, and all but the last -top_k of them when top_k is negative.
C2_LengthBound ==
    IsSearch =>
        LET positive == Cardinality(PositiveDocs(ScoredQuery))
        IN  /\ Len(ret) <= positive
            /\ call.top_k >= 0 => Len(ret) <= call.top_k /\ Len(ret) = Min(call.top_k, positive)
            /\ call.top_k < 0 => Len(ret) = Max(positive + call.top_k, 0)
\* a search cut three positive-score documents down to top_k = 2
C2_Witness ==
    /\ IsSearch
    /\ call.top_k = 2
    /\ Len(ret) = 2
    /\ Cardinality(PositiveDocs(ScoredQuery)) = 3

\* C3 (as stated): a retrieval with top_k <= 0 returns an empty list.
C3_EmptyWhenNotPositive ==
    (IsRetrieval /\ call.top_k <= 0) => ret = <<>>

\* C4 (as stated): the score of a document in the basic and the compliance
\* pipeline is the specification's score for the query of the call: every
\* returned document carries it, and when top_k leaves room for the whole
\* store every document for which it is positive is returned.
C4_ScoreOfQuery ==
    IsSearch =>
        /\ \A k \in 1..Len(ret) : ret[k].score = SpecScore(call.query, ret[k].content)
        /\ call.top_k >= Len(documents) => \A n \in PositiveDocs(call.query) : Returned(n)
\* C4 (amended): the same of the query the scoring loop reads, which in the
\* compliance pipeline is the query after the redaction of its PII; the score
\* is a positive integer for a returned document.
C4_ScoreOfScoredQuery ==
    IsSearch =>
        /\ \A k \in 1..Len(ret) :
              /\ ret[k].score = SpecScore(ScoredQuery, ret[k].content)
              /\ ret[k].score \in Nat \ {0}
              /\ ret[k].content = documents[StorePosition(ret[k])].content
        /\ call.top_k >= Len(documents) => \A n \in PositiveDocs(ScoredQuery) : Returned(n)
\* a search whose query repeats a token scored a document in which the token
\* occurs twice without overlap: 2 + 2
C4_Witness ==
    /\ IsSearch
    /\ Cardinality(TokenSpans(call.query)) = 2
    /\ \E k \in 1..Len(ret) :
          /\ ret[k].score = 4
          /\ ret[k].content = <<"a","a","a","a","a","a","a","a","a">>

\* C5 (as stated): in all three pipelines a document in whose content no query
\* token longer than 3 occurs is not returned; the empty query and a query of
\* short tokens only retrieve nothing.
C5_NoLongTokenNoDocument ==
    IsRetrieval =>
        /\ \A n \in 1..Len(documents) :
              ~TokenOccurs(call.query, documents[n].content, 3) => ~Returned(n)
        /\ (\A sp \in TokenSpans(call.query) : sp[2] - sp[1] + 1 <= 3) => ret = <<>>
\* C5 (amended): in the basic and the compliance pipeline a document in whose
\* content no token longer than 3 of the scored query occurs is not returned,
\* and a query of short tokens only retrieves nothing; in the enterprise
\* pipeline a document is not returned when no token of any length occurs in
\* it; the empty query retrieves nothing in all three.
C5_NoTokenNoDocument ==
    IsRetrieval =>
        /\ \A n \in 1..Len(documents) :
              ~TokenOccurs(ScoredQuery, documents[n].content,
                   IF kind = "enterprise" THEN 0 ELSE 3) => ~Returned(n)
        /\ (kind # "enterprise" /\ \A sp \in TokenSpans(call.query) : sp[2] - sp[1] + 1 <= 3)
               => ret = <<>>
        /\ TokenSpans(call.query) = {} => ret = <<>>
\* a retrieval returned a document and left out another in which no token of
\* the query occurs
C5_Witness ==
    /\ IsRetrieval
    /\ ret # <<>>
    /\ \E n \in 1..Len(documents) :
          /\ ~TokenOccurs(ScoredQuery, documents[n].content, 0)
          /\ ~Returned(n)

-----------------------------------------------------------------------------
(* The classification of an answer *)

\* PUBLIC < INTERNAL < CONFIDENTIAL < RESTRICTED
AtMost(c, d) ==
    \/ c = PUBLIC
    \/ c = INTERNAL /\ d \in {INTERNAL, CONFIDENTIAL, RESTRICTED}
    \/ c = CONFIDENTIAL /\ d \in {CONFIDENTIAL, RESTRICTED}
    \/ c = RESTRICTED /\ d = RESTRICTED
\* the documents generate_answer was given: those of the call, or those the
\* search of query found, which the citations list one for one
AnswerSources ==
    IF call.op = "generate_answer" THEN call.context_docs ELSE ret.citations
IsAnswer == call.op \in {"generate_answer", "query"}

\* C7: the classification of an answer made from a non-empty list of documents
\* is the greatest classification among all of them.
C7_MaxClassification ==
    (IsAnswer /\ AnswerSources # <<>>) =>
        /\ \E k \in 1..Len(AnswerSources) : AnswerSources[k].classification = ret.classification
        /\ \A k \in 1..Len(AnswerSources) :
              AtMost(AnswerSources[k].classification, ret.classification)
        /\ call.op = "query" =>
              \A k \in 1..Len(ret.citations) :
                  \E n \in 1..Len(documents) :
                      /\ documents[n].id = ret.citations[k].document_id
                      /\ documents[n].classification = ret.citations[k].classification
\* an answer whose top-ranked source is PUBLIC and whose second is RESTRICTED
C7_Witness ==
    /\ call.op = "generate_answer"
    /\ Len(call.context_docs) = 2
    /\ call.context_docs[1].classification = PUBLIC
    /\ call.context_docs[2].classification = RESTRICTED
    /\ ret.classification = RESTRICTED

-----------------------------------------------------------------------------
(* The classifier and the PII functions, called on a compliance pipeline    *)
(* built with its defaults                                                  *)

\* the parts of ps joined
RECURSIVE Join(_)
Join(ps) == IF ps = <<>> THEN <<>> ELSE Head(ps) \o Join(Tail(ps))
\* the texts made of at most n parts of pool
TextsOf(pool, n) == {Join(ps) : ps \in UNION {[1..k -> pool] : k \in 0..n}}

\* the most parts a content handed to _classify_document is made of
MaxContentParts == 3
\* keywords in mixed case, pieces that join into a keyword, and fillers
ContentParts ==
    {<<"C","o","n","f","i","d","e","n","t","i","a","l">>,
     <<"r","e","s","t","r","i","c","t","e","d">>,
     <<"S","E","C","R","E","T">>,
     <<"p","a","t","i","e","n","t">>,
     <<"s","s","n">>,
     <<"I","n","t","e","r","n","a","l">>,
     <<"p","r","o","p","r","i","e","t","a","r","y">>,
     <<"s">>, <<"n">>, <<"i","n","t","e","r">>, <<"n","a","l">>, <<" ">>, <<"x">>}
Contents == TextsOf(ContentParts, MaxContentParts)

\* the most parts a text handed to _detect_pii or _redact_pii is made of
MaxTextParts == 3
\* one text per pattern, the tail of an email address, and separators
TextParts ==
    {<<"1","2","3","-","4","5","-","6","7","8","9">>,
     <<"1","2","3","-","4","5","6","-","7","8","9","0">>,
     <<"1","2","3","4","-","5","6","7","8","-","9","0","1","2","-","3","4","5","6">>,
     <<"a","@","b",".","c","o">>,
     <<"@","b",".","c","o">>,
     <<" ">>, <<"-">>, <<"1">>, <<"x">>, <<".">>}
\* a text with an e-mail address and a phone number in a sentence
ScenarioText == <<"C","o","n","t","a","c","t"," ","m","e"," ","a","t"," ","j","o","h","n","@",
        "e","x","a","m","p","l","e",".","c","o","m"," ","o","r"," ","5","5","5","-","1","2","3",
        "-","4","5","6","7">>
Texts == TextsOf(TextParts, MaxTextParts) \cup {ScenarioText}

InitDefault ==
    /\ kind = "compliance"
    /\ user_id = "default_user"
    /\ LET Made(self) ==
               /\ documents = self.documents
               /\ audit_log = self.audit_log
       IN  Made(Compliance_init(NoPath, "default_user"))
    /\ call = NoCall
    /\ ret = None

\* ComplianceRAGPipeline._classify_document(content)
ClassifyDocument ==
    /\ call = NoCall
    /\ \E content \in Contents :
          /\ call' = [op |-> "_classify_document", content |-> content]
          /\ ret' = _classify_document(content)
    /\ UNCHANGED <<kind, documents, user_id, audit_log>>

SpecClassify == InitDefault /\ [][ClassifyDocument]_vars

\* ComplianceRAGPipeline._detect_pii(text)
DetectPII ==
    /\ call = NoCall
    /\ \E text \in Texts :
          /\ call' = [op |-> "_detect_pii", text |-> text]
          /\ ret' = _detect_pii(text)
    /\ UNCHANGED <<kind, documents, user_id, audit_log>>

\* ComplianceRAGPipeline._redact_pii(text)
RedactPII ==
    /\ call = NoCall
    /\ \E text \in Texts :
          /\ call' = [op |-> "_redact_pii", text |-> text, of |-> None]
          /\ ret' = _redact_pii(text)
    /\ UNCHANGED <<kind, documents, user_id, audit_log>>

\* ComplianceRAGPipeline._redact_pii(text), text what _redact_pii just
\* returned; call.of keeps the text that call was given
RedactAgain ==
    /\ call.op = "_redact_pii"
    /\ call.of = None
    /\ call' = [op |-> "_redact_pii", text |-> ret, of |-> <<call.text>>]
    /\ ret' = _redact_pii(ret)
    /\ UNCHANGED <<kind, documents, user_id, audit_log>>

NextPII ==
    \/ DetectPII
    \/ RedactPII
    \/ RedactAgain

SpecPII == InitDefault /\ [][NextPII]_vars

-----------------------------------------------------------------------------
(* The claims about the classifier and the PII functions *)

\* content, lower-cased, contains one of the keywords
ContainsAny(content, keywords) ==
    \E kw \in keywords : Occurrences(kw, lower(content)) # {}

\* C6: _classify_document returns CONFIDENTIAL when the lower-cased content
\* contains confidential, restricted, secret, patient or ssn, whatever else it
\* contains; otherwise INTERNAL when it contains internal or proprietary;
\* otherwise PUBLIC; and never RESTRICTED.
C6_ClassifyByPrecedence ==
    call.op = "_classify_document" =>
        /\ ret = IF ContainsAny(call.content,
                        {<<"c","o","n","f","i","d","e","n","t","i","a","l">>,
                         <<"r","e","s","t","r","i","c","t","e","d">>,
                         <<"s","e","c","r","e","t">>,
                         <<"p","a","t","i","e","n","t">>,
                         <<"s","s","n">>})
                 THEN <<"C","O","N","F","I","D","E","N","T","I","A","L">>
                 ELSE IF ContainsAny(call.content,
                             {<<"i","n","t","e","r","n","a","l">>,
                              <<"p","r","o","p","r","i","e","t","a","r","y">>})
                      THEN <<"I","N","T","E","R","N","A","L">>
                      ELSE <<"P","U","B","L","I","C">>
        /\ ret # <<"R","E","S","T","R","I","C","T","E","D">>
\* a content with an INTERNAL keyword before a CONFIDENTIAL one was classified
\* CONFIDENTIAL
C6_Witness ==
    /\ call.op = "_classify_document"
    /\ call.content = <<"I","n","t","e","r","n","a","l"," ","S","E","C","R","E","T">>
    /\ ret = CONFIDENTIAL

\* C8: _redact_pii of what _redact_pii returned returns it unchanged.
C8_RedactIdempotent ==
    (call.op = "_redact_pii" /\ call.of # None) => ret = call.text
\* a text in which the first redaction replaced matches of two patterns was
\* redacted again
C8_Witness ==
    /\ call.op = "_redact_pii"
    /\ call.of # None
    /\ Occurrences(placeholder(EMAIL), call.text) # {}
    /\ Occurrences(placeholder(SSN), call.text) # {}
    /\ ret = call.text

\* the spans of the matches i and j of a _detect_pii result share no character
Disjoint(i, j) ==
    \/ ret[i].position[2] <= ret[j].position[1]
    \/ ret[j].position[2] <= ret[i].position[1]

\* C9 (as stated): no two matches _detect_pii returns share a character, be
\* they of one pattern or of two.
C9_NoTwoMatchesOverlap ==
    call.op = "_detect_pii" =>
        \A i, j \in 1..Len(ret) : i # j => Disjoint(i, j)
\* C9 (amended): no two matches of the same pattern that _detect_pii returns
\* share a character, and none is empty.
C9_SamePatternMatchesDisjoint ==
    call.op = "_detect_pii" =>
        /\ \A i, j \in 1..Len(ret) : (i # j /\ ret[i].type = ret[j].type) => Disjoint(i, j)
        /\ \A i \in 1..Len(ret) : ret[i].position[1] < ret[i].position[2]
\* _detect_pii returned two matches of one pattern
C9_Witness ==
    /\ call.op = "_detect_pii"
    /\ \E i, j \in 1..Len(ret) : i # j /\ ret[i].type = ret[j].type

\* email, ssn, phone, credit_card: the place of a type in that order
TypeOrder(type) ==
    CASE type = <<"e","m","a","i","l">> -> 1
      [] type = <<"s","s","n">> -> 2
      [] type = <<"p","h","o","n","e">> -> 3
      [] type = <<"c","r","e","d","i","t","_","c","a","r","d">> -> 4

\* C10: _detect_pii returns its matches grouped by pattern in the order email,
\* ssn, phone, credit_card, those of one pattern by increasing start, and the
\* value of each is the text at its span.
C10_GroupedByPatternThenStart ==
    call.op = "_detect_pii" =>
        /\ \A i, j \in 1..Len(ret) :
              i < j =>
                  \/ TypeOrder(ret[i].type) < TypeOrder(ret[j].type)
                  \/ /\ ret[i].type = ret[j].type
                     /\ ret[i].position[1] < ret[j].position[1]
        /\ \A i \in 1..Len(ret) :
              /\ 0 <= ret[i].position[1]
              /\ ret[i].position[2] <= Len(call.text)
              /\ ret[i].value = SubSeq(call.text, ret[i].position[1] + 1, ret[i].position[2])
\* _detect_pii listed a match before one of another pattern that starts
\* earlier in the text
C10_Witness ==
    /\ call.op = "_detect_pii"
    /\ \E i, j \in 1..Len(ret) :
          i < j /\ ret[i].type # ret[j].type /\ ret[i].position[1] > ret[j].position[1]

-----------------------------------------------------------------------------
(* Construction as a step, and sessions of several calls on one pipeline    *)

\* no pipeline object yet
Unconstructed ==
    /\ kind = "unconstructed"
    /\ documents = <<>>
    /\ user_id = ""
    /\ audit_log = <<>>
    /\ call = [op |-> "none"]
    /\ ret = None

\* SimpleRAGPipeline(documents_path)
BasicConstruct(documents_path) ==
    /\ kind = "unconstructed"
    /\ kind' = "basic"
    /\ documents' = Basic_init(documents_path)
    /\ call' = [op |-> "__init__", documents_path |-> documents_path]
    /\ ret' = None
    /\ UNCHANGED <<user_id, audit_log>>

\* ComplianceRAGPipeline(documents_path, user_id)
ComplianceConstruct(documents_path, user) ==
    /\ kind = "unconstructed"
    /\ kind' = "compliance"
    /\ LET Made(self) ==
               /\ documents' = self.documents
               /\ audit_log' = self.audit_log
       IN  Made(Compliance_init(documents_path, user))
    /\ user_id' = user
    /\ call' = [op |-> "__init__", documents_path |-> documents_path, user_id |-> user]
    /\ ret' = None

\* MockEnterpriseRAGPipeline(data_path)
EnterpriseConstruct(data_path) ==
    /\ kind = "unconstructed"
    /\ kind' = "enterprise"
    /\ documents' = Enterprise_load_documents(data_path)
    /\ call' = [op |-> "__init__", documents_path |-> data_path]
    /\ ret' = None
    /\ UNCHANGED <<user_id, audit_log>>

\* the construction of one pipeline of the three
NextConstruct ==
    \/ \E documents_path \in DocumentPaths : BasicConstruct(documents_path)
    \/ \E documents_path \in DocumentPaths, user \in UserIds :
           ComplianceConstruct(documents_path, user)
    \/ \E data_path \in DataPaths : EnterpriseConstruct(data_path)

SpecConstruct == Unconstructed /\ [][NextConstruct]_vars

\* the documents_path of a session: none (basic pipeline only), or a directory
\* of one or of three files
SessionDocumentPaths ==
    {NoPath, Directory(<<FileHr>>), Directory(<<FileDataPolicy, FileHr, FilePhone>>)}
\* the data_path of a session: absent, or hr/ and finance/ with three files
SessionDataPaths ==
    {MissingDataPath(DATA_REAL_WORLD),
     DataPath(DATA_REAL_WORLD,
         <<[name |-> HR, is_dir |-> TRUE, files |-> <<FileHr, [stem |-> <<"f","d","a">>, suffix |-> TXT,
                 content |-> <<"F","D","A"," ","s","a","f","e","t","y"," ","d","a","t","a">>]>>],
           [name |-> FINANCE, is_dir |-> TRUE, files |-> <<FileDataPolicy>>]>>)}
\* "data", "secret", "fda safety", "123-456-7890", ""
SessionQueries ==
    {<<"d","a","t","a">>, <<"s","e","c","r","e","t">>, <<"f","d","a"," ","s","a","f","e","t","y">>,
            <<"1","2","3","-","4","5","6","-","7","8","9","0">>, <<>>}
SessionTopKs == {-1, 3}
\* context_docs of a session: the first k stored documents, each with a score
SessionContextDocs(docs) ==
    {[n \in 1..k |-> ("score" :> 1) @@ docs[n]] : k \in 0..Min(Len(docs), MaxContextDocs)}

\* calls are made while the audit log is shorter than this
MaxLogLen == 5

\* the construction of a pipeline, or one call of a method of the pipeline
\* constructed: in the order of the disjuncts, SimpleRAGPipeline's search,
\* generate_answer and query, ComplianceRAGPipeline's _check_authorization,
\* search, generate_answer and query, MockEnterpriseRAGPipeline's
\* _mock_retrieval and run
NextSession ==
    \/ \E documents_path \in SessionDocumentPaths : BasicConstruct(documents_path)
    \/ \E documents_path \in SessionDocumentPaths \ {NoPath}, user \in UserIds :
           ComplianceConstruct(documents_path, user)
    \/ \E data_path \in SessionDataPaths : EnterpriseConstruct(data_path)
    \/ \E query \in SessionQueries, top_k \in SessionTopKs :
           BasicSearchCall(query, top_k)
    \/ \E query \in AnswerQueries, context_docs \in SessionContextDocs(documents) :
           BasicGenerateAnswerCall(query, context_docs)
    \/ \E question \in SessionQueries, top_k \in SessionTopKs :
           BasicQueryCall(question, top_k)
    \/ /\ Len(audit_log) < MaxLogLen
       /\ \E n \in 1..Len(documents) : ComplianceCheckAuthorizationCall(documents[n])
    \/ /\ Len(audit_log) < MaxLogLen
       /\ \E query \in SessionQueries, top_k \in SessionTopKs :
              ComplianceSearchCall(query, top_k)
    \/ /\ Len(audit_log) < MaxLogLen
       /\ \E query \in AnswerQueries, context_docs \in SessionContextDocs(documents) :
              ComplianceGenerateAnswerCall(query, context_docs)
    \/ /\ Len(audit_log) < MaxLogLen
       /\ \E question \in SessionQueries, top_k \in SessionTopKs :
              ComplianceQueryCall(question, top_k)
    \/ \E query \in SessionQueries, top_k \in SessionTopKs :
           EnterpriseMockRetrievalCall(query, top_k)
    \/ \E query \in SessionQueries, top_k \in SessionTopKs :
           EnterpriseRunCall(query, top_k)

SpecSession == Unconstructed /\ [][NextSession]_vars

-----------------------------------------------------------------------------
(* The claims about authorization, the audit log and the store *)

\* the entries a step appends to the audit log
NewEntries == SubSeq(audit_log', Len(audit_log) + 1, Len(audit_log'))
\* the audit log before the step is a prefix of the audit log after it
LogExtended ==
    /\ Len(audit_log) <= Len(audit_log')
    /\ SubSeq(audit_log', 1, Len(audit_log)) = audit_log
\* the stored documents that require authorization, in store order
AuthorizedIds ==
    LET requiring == SelectSeq(documents, LAMBDA d : d.requires_authorization)
    IN  [k \in 1..Len(requiring) |-> requiring[k].id]
\* the query the compliance search scores when given q
RedactedQuery(q) == IF _detect_pii(q) # <<>> THEN _redact_pii(q) ELSE q

\* C11: _check_authorization returns True for every document; it appends one
\* AUTHORIZATION_CHECK entry when the document requires authorization and
\* nothing otherwise.  In a search, one such entry is appended per stored
\* document that requires authorization, in store order, and a document that
\* requires authorization and scores is returned when top_k leaves room.
C11_AlwaysGrantedLoggedWhenRequired ==
    [][/\ call'.op = "_check_authorization" =>
              /\ ret' = TRUE
              /\ LogExtended
              /\ IF call'.document.requires_authorization
                 THEN /\ Len(NewEntries) = 1
                      /\ NewEntries[1].action = "AUTHORIZATION_CHECK"
                      /\ NewEntries[1].metadata.document_id = call'.document.id
                 ELSE NewEntries = <<>>
       /\ (kind = "compliance" /\ call'.op = "search") =>
              /\ LET checks == SelectSeq(NewEntries,
                                   LAMBDA e : e.action = "AUTHORIZATION_CHECK")
                 IN  [k \in 1..Len(checks) |-> checks[k].metadata.document_id] = AuthorizedIds
              /\ call'.top_k >= Len(documents) =>
                     \A q \in {RedactedQuery(call'.query)}, results \in {ret'} :
                         \A n \in 1..Len(documents) :
                             (/\ documents[n].requires_authorization
                              /\ SpecScore(q, documents[n].content) > 0)
                                 => \E k \in 1..Len(results) :
                                        results[k].id = documents[n].id
      ]_vars
\* _check_authorization granted a document that requires authorization and
\* logged the check
C11_Witness ==
    /\ call.op = "_check_authorization"
    /\ call.document.requires_authorization
    /\ ret = TRUE
    /\ audit_log[Len(audit_log)].action = "AUTHORIZATION_CHECK"
    /\ audit_log[Len(audit_log)].metadata.document_id = call.document.id

\* the number of _log_action calls the step's method makes
LogActionCalls ==
    LET pii == IF _detect_pii(call'.query) # <<>> THEN 1 ELSE 0
        searching == 2 + pii + Len(AuthorizedIds)
    IN  CASE call'.op = "__init__" -> 1
          [] call'.op = "_check_authorization" ->
                 IF call'.document.requires_authorization THEN 1 ELSE 0
          [] call'.op = "search" -> searching
          [] call'.op = "generate_answer" -> IF call'.context_docs # <<>> THEN 1 ELSE 0
          [] call'.op = "query" -> searching + (IF ret'.citations # <<>> THEN 1 ELSE 0)

\* C12: the audit log of the compliance pipeline is append-only: in every step
\* of a session (the construction, _check_authorization, search,
\* generate_answer, query) the log before is a prefix of the log after, the
\* step appends one entry per _log_action call it makes, and every entry
\* carries the user_id given to the constructor.
C12_AppendOnlyLog ==
    [][kind' = "compliance" =>
          /\ LogExtended
          /\ Len(audit_log') = Len(audit_log) + LogActionCalls
          /\ IF kind = "compliance" THEN user_id' = user_id
                                    ELSE user_id' = call'.user_id
          /\ \A k \in 1..Len(audit_log') : audit_log'[k].user_id = user_id'
      ]_vars
\* after several calls on a pipeline constructed for "auditor", one of which
\* logged PII in its query, a query has answered: the log holds the
\* SYSTEM_INIT entry first and the ANSWER_GENERATED entry last
C12_Witness ==
    /\ kind = "compliance"
    /\ user_id = "auditor"
    /\ call.op = "query"
    /\ Len(audit_log) >= 5
    /\ audit_log[1].action = "SYSTEM_INIT"
    /\ audit_log[Len(audit_log)].action = "ANSWER_GENERATED"
    /\ \E k \in 1..Len(audit_log) : audit_log[k].action = "PII_DETECTED_IN_QUERY"
    /\ \A k \in 1..Len(audit_log) : audit_log[k].user_id = "auditor"

-----------------------------------------------------------------------------
(* The claims about construction *)

\* the constructor was given a path that does not exist or a directory
\* holding no .txt file
NothingToLoad(documents_path) ==
    /\ documents_path.given
    /\ ~documents_path.exists \/ glob_txt(documents_path.files) = <<>>

\* C13: constructing the basic or the compliance pipeline with a path that
\* does not exist, or with a directory holding no .txt file, completes and
\* leaves the store equal to the five sample documents of the pipeline; the
\* store of these two pipelines is not empty after any construction.
C13_FallsBackToSamples ==
    (kind \in {"basic", "compliance"} /\ call.op = "__init__") =>
        /\ ret = None
        /\ documents # <<>>
        /\ NothingToLoad(call.documents_path) =>
               /\ Len(documents) = 5
               /\ documents = IF kind = "basic" THEN Basic_create_sample_documents
                                               ELSE Compliance_create_sample_documents
\* the compliance pipeline was constructed on a directory whose only file is
\* notes.md and holds the samples
C13_Witness ==
    /\ kind = "compliance"
    /\ call.op = "__init__"
    /\ call.documents_path = Directory(<<FileNotes>>)
    /\ documents = Compliance_create_sample_documents

\* some directory under the data path holds a .txt file
HoldsDocuments(data_path) ==
    /\ data_path.exists
    /\ \E n \in 1..Len(data_path.entries) :
           /\ data_path.entries[n].is_dir
           /\ glob_txt(data_path.entries[n].files) # <<>>

\* C14 (as the code has it): constructing the enterprise pipeline completes
\* whatever the data path; the store is empty exactly when the data path is
\* absent or no directory under it holds a .txt file.  No sample corpus
\* takes the place of the missing documents.
C14_EmptyStoreWithoutDocuments ==
    (kind = "enterprise" /\ call.op = "__init__") =>
        /\ ret = None
        /\ documents = <<>> <=> ~HoldsDocuments(call.documents_path)
\* the enterprise pipeline was constructed on an absent data path and its
\* store is empty
C14_Witness ==
    /\ kind = "enterprise"
    /\ call.op = "__init__"
    /\ ~call.documents_path.exists
    /\ documents = <<>>
\* C14 (as stated): the store of the enterprise pipeline is not empty after
\* construction, a sample corpus standing in when nothing is loaded
C14_StoreNonEmpty ==
    (kind = "enterprise" /\ call.op = "__init__") => documents # <<>>

-----------------------------------------------------------------------------
(* The claims about results and answers *)

\* C15 (as the code has it): every result of the compliance pipeline's query
\* holds question, pii_in_question, answer, citations, pii_detected and
\* classification; it holds redacted_answer exactly when at least one
\* document was retrieved.
C15_ResultFields ==
    (kind = "compliance" /\ call.op = "query") =>
        /\ {"question", "pii_in_question", "answer", "citations", "pii_detected",
            "classification"} \subseteq DOMAIN ret
        /\ ret.question = call.query
        /\ ret.pii_detected \in BOOLEAN
        /\ ret.classification \in {PUBLIC, INTERNAL, CONFIDENTIAL, RESTRICTED}
        /\ "redacted_answer" \in DOMAIN ret <=> ret.citations # <<>>
\* a query retrieved no document and its result has no redacted_answer
C15_Witness ==
    /\ kind = "compliance"
    /\ call.op = "query"
    /\ ret.citations = <<>>
    /\ "redacted_answer" \notin DOMAIN ret
\* C15 (as stated): every result of the compliance pipeline's query holds
\* question, answer, pii_detected, classification and redacted_answer
C15_AllFieldsAlways ==
    (kind = "compliance" /\ call.op = "query") =>
        {"question", "answer", "pii_detected", "classification", "redacted_answer"}
            \subseteq DOMAIN ret

\* C16: after construction the store is read-only: every step of a session
\* on a constructed pipeline (search, generate_answer, query,
\* _check_authorization, _mock_retrieval, run) leaves the store as it was, in
\* length, order and every field of every document; the score of a returned
\* document is on the returned copy and on no stored document.
C16_StoreReadOnly ==
    [][kind # "unconstructed" =>
          /\ documents' = documents
          /\ \A n \in 1..Len(documents') : "score" \notin DOMAIN documents'[n]
          /\ call'.op \in {"search", "_mock_retrieval"} =>
                 \A k \in 1..Len(ret') : "score" \in DOMAIN ret'[k]
          /\ (kind # "compliance" /\ call'.op \in {"query", "run"}) =>
                 \A k \in 1..Len(ret'.sources) : "score" \in DOMAIN ret'.sources[k]
      ]_vars
\* a search of the basic pipeline returned a scored copy of the first stored
\* document, which carries no score in the store
C16_Witness ==
    /\ kind = "basic"
    /\ call.op = "search"
    /\ Len(ret) >= 2
    /\ \E k \in 1..Len(ret) :
           /\ ret[k].score > 0
           /\ ret[k].id = documents[1].id
           /\ ret[k].content = documents[1].content
    /\ "score" \notin DOMAIN documents[1]

-----------------------------------------------------------------------------
(* The claims about the classified store *)

\* C17: every document of the compliance pipeline's store, a sample or one
\* loaded and classified from a directory, has one of the four
\* classifications, and requires authorization exactly when its
\* classification is CONFIDENTIAL or RESTRICTED.
C17_AuthorizationFollowsClassification ==
    kind = "compliance" =>
        \A n \in 1..Len(documents) :
            /\ documents[n].classification \in {PUBLIC, INTERNAL, CONFIDENTIAL, RESTRICTED}
            /\ documents[n].requires_authorization \in BOOLEAN
            /\ documents[n].requires_authorization
                   <=> documents[n].classification \in {CONFIDENTIAL, RESTRICTED}
\* a store loaded from a directory holds a CONFIDENTIAL document that
\* requires authorization and an INTERNAL one that does not
C17_Witness ==
    /\ kind = "compliance"
    /\ call.op = "__init__"
    /\ call.documents_path.exists
    /\ \E n, m \in 1..Len(documents) :
           /\ documents[n].classification = CONFIDENTIAL
           /\ documents[n].requires_authorization
           /\ documents[m].classification = INTERNAL
           /\ ~documents[m].requires_authorization

\* the fixed messages of the three pipelines for no document
BasicNoInformation ==
    <<"I"," ","c","o","u","l","d","n","'","t"," ","f","i","n","d"," ","a","n","y"," ","r","e",
            "l","e","v","a","n","t"," ","i","n","f","o","r","m","a","t","i","o","n"," ","t","o",
            " ","a","n","s","w","e","r"," ","y","o","u","r"," ","q","u","e","s","t","i","o","n",
            ".">>
ComplianceNoInformation == <<"N","o"," ","r","e","l","e","v","a","n","t"," ","i","n","f","o","r",
        "m","a","t","i","o","n"," ","f","o","u","n","d",".">>
EnterpriseNoInformation == <<"N","o"," ","r","e","l","e","v","a","n","t"," ","d","o","c","u","m",
        "e","n","t","s"," ","f","o","u","n","d"," ","t","o"," ","a","n","s","w","e","r"," ","t",
        "h","i","s"," ","q","u","e","r","y",".">>

\* C18: with an empty store every retrieval returns the empty sequence, and
\* whenever nothing was retrieved the answer is the fixed message of the
\* pipeline whatever the query, in the enterprise pipeline also for a query
\* with keywords that select a canned answer.
C18_NothingRetrievedFixedMessage ==
    /\ (documents = <<>> /\ call.op \in {"search", "_mock_retrieval"}) => ret = <<>>
    /\ (documents = <<>> /\ kind = "enterprise" /\ call.op = "run") => ret.sources = <<>>
    /\ (kind = "enterprise" /\ call.op = "run" /\ ret.sources = <<>>) =>
           ret.answer = EnterpriseNoInformation
    /\ (kind = "basic" /\ call.op = "query" /\ ret.sources = <<>>) =>
           ret.answer = BasicNoInformation
    /\ (kind = "basic" /\ call.op = "generate_answer" /\ call.context_docs = <<>>) =>
           ret = BasicNoInformation
    /\ (kind = "compliance" /\ call.op = "query" /\ ret.citations = <<>>) =>
           ret.answer = ComplianceNoInformation
    /\ (kind = "compliance" /\ call.op = "generate_answer" /\ call.context_docs = <<>>) =>
           ret.answer = ComplianceNoInformation
\* the enterprise pipeline, constructed on an absent data path, ran the query
\* "fda safety" on its empty store
C18_Witness ==
    /\ kind = "enterprise"
    /\ documents = <<>>
    /\ call.op = "run"
    /\ call.query = <<"f","d","a"," ","s","a","f","e","t","y">>
    /\ ret.sources = <<>>
    /\ ret.answer = EnterpriseNoInformation


\* s ends with t
EndsWith(s, t) == Len(t) <= Len(s) /\ SubSeq(s, Len(s) - Len(t) + 1, Len(s)) = t
\* the trailing notes of the two pipelines for the number n
BasicNote(n) == <<"(","F","o","u","n","d"," ">> \o str_int(n) \o <<" ","r","e","l","e","v","a",
        "n","t"," ","d","o","c","u","m","e","n","t","(","s",")",")">>
ComplianceNote(n) ==
    <<"A","d","d","i","t","i","o","n","a","l"," ","i","n","f","o","r","m","a","t","i","o","n",
            " ","f","r","o","m"," ">> \o str_int(n) \o <<" ","r","e","l","a","t","e","d"," ","d",
            "o","c","u","m","e","n","t","(","s",")",".">>
\* answer shows top_content and ends with note when retrieved documents were
\* found and retrieved > 1, with nothing after the content otherwise
AnswerShows(answer, top_content, retrieved, note) ==
    /\ contains(answer, top_content)
    /\ IF retrieved > 1 THEN EndsWith(answer, top_content \o <<"\n", "\n">> \o note)
                        ELSE EndsWith(answer, top_content \o <<"\n", "\n">>)
\* the content of the stored document that the citation names
CitedContent(citation) ==
    (CHOOSE d \in {documents[n] : n \in 1..Len(documents)} :
        d.id = citation.document_id).content

\* C19 (as the code has it): for a non-empty ranked list the answer of the
\* basic and compliance pipelines contains the content of the first document
\* and a trailing note follows exactly when more than one document was
\* retrieved; the note of the compliance pipeline names the number retrieved
\* minus one, the note of the basic pipeline names the number retrieved.
C19_TopContentAndNote ==
    /\ (kind = "basic" /\ call.op = "generate_answer" /\ call.context_docs # <<>>) =>
           AnswerShows(ret, call.context_docs[1].content, Len(call.context_docs),
               BasicNote(Len(call.context_docs)))
    /\ (kind = "basic" /\ call.op = "query" /\ ret.sources # <<>>) =>
           AnswerShows(ret.answer, ret.sources[1].content, Len(ret.sources),
               BasicNote(Len(ret.sources)))
    /\ (kind = "compliance" /\ call.op = "generate_answer" /\ call.context_docs # <<>>) =>
           AnswerShows(ret.answer, call.context_docs[1].content, Len(call.context_docs),
               ComplianceNote(Len(call.context_docs) - 1))
    /\ (kind = "compliance" /\ call.op = "query" /\ ret.citations # <<>>) =>
           AnswerShows(ret.answer, CitedContent(ret.citations[1]), Len(ret.citations),
               ComplianceNote(Len(ret.citations) - 1))
\* the basic pipeline answered from two documents and its note names 2
C19_Witness ==
    /\ kind = "basic"
    /\ call.op = "generate_answer"
    /\ Len(call.context_docs) = 2
    /\ EndsWith(ret, call.context_docs[1].content \o <<"\n", "\n">> \o BasicNote(2))
\* C19 (as stated): in both pipelines the note names the number retrieved
\* minus one
C19_NoteNamesAdditional ==
    /\ (kind = "basic" /\ call.op = "generate_answer" /\ Len(call.context_docs) > 1) =>
           EndsWith(ret, BasicNote(Len(call.context_docs) - 1))
    /\ (kind = "compliance" /\ call.op = "generate_answer" /\ Len(call.context_docs) > 1) =>
           EndsWith(ret.answer, ComplianceNote(Len(call.context_docs) - 1))

-----------------------------------------------------------------------------
(* The scenario of a text with an e-mail address and a phone number *)

\* C20: for "Contact me at john@example.com or 555-123-4567", _detect_pii
\* returns one email match and one phone match and nothing else, and the
\* output of _redact_pii contains [REDACTED-EMAIL] and [REDACTED-PHONE] and
\* neither the address nor the number.
C20_ScenarioDetectedAndRedacted ==
    /\ (call.op = "_detect_pii" /\ call.text = ScenarioText) =>
           /\ Len(ret) = 2
           /\ ret[1].type = <<"e","m","a","i","l">> /\ ret[1].value = <<"j","o","h","n","@","e",
                   "x","a","m","p","l","e",".","c","o","m">>
           /\ ret[2].type = <<"p","h","o","n","e">> /\ ret[2].value = <<"5","5","5","-","1","2",
                   "3","-","4","5","6","7">>
    /\ (call.op = "_redact_pii" /\ call.text = ScenarioText) =>
           /\ contains(ret, <<"[","R","E","D","A","C","T","E","D","-","E","M","A","I","L","]">>)
           /\ contains(ret, <<"[","R","E","D","A","C","T","E","D","-","P","H","O","N","E","]">>)
           /\ ~contains(ret, <<"j","o","h","n","@","e","x","a","m","p","l","e",".","c","o","m">>)
           /\ ~contains(ret, <<"5","5","5","-","1","2","3","-","4","5","6","7">>)
\* _redact_pii was given the text and returned it with the two placeholders
C20_Witness ==
    /\ call.op = "_redact_pii"
    /\ call.text = ScenarioText
    /\ ret = <<"C","o","n","t","a","c","t"," ","m","e"," ","a","t"," ","[","R","E","D","A","C",
            "T","E","D","-","E","M","A","I","L","]"," ","o","r"," ","[","R","E","D","A","C","T",
            "E","D","-","P","H","O","N","E","]">>

-----------------------------------------------------------------------------
(* The scenario of the query "vacation days" on the samples of the basic pipeline *)

\* C21: on the five samples of the basic pipeline, search("vacation days", top_k)
\* with top_k >= 1 returns "Company Vacation Policy" first, with a positive
\* score, and with top_k = 3 returns at most 3 documents.
C21_VacationPolicyFirst ==
    (/\ kind = "basic"
     /\ documents = Basic_create_sample_documents
     /\ call.op = "search"
     /\ call.query = <<"v","a","c","a","t","i","o","n"," ","d","a","y","s">>) =>
        /\ call.top_k >= 1 =>
               /\ ret # <<>>
               /\ ret[1].title = <<"C","o","m","p","a","n","y"," ","V","a","c","a","t","i","o",
                       "n"," ","P","o","l","i","c","y">>
               /\ ret[1].score > 0
        /\ call.top_k = 3 => Len(ret) <= 3
\* the search with top_k = 3 returned the vacation policy before a second
\* document of a lower score
C21_Witness ==
    /\ kind = "basic"
    /\ documents = Basic_create_sample_documents
    /\ call.op = "search"
    /\ call.query = <<"v","a","c","a","t","i","o","n"," ","d","a","y","s">>
    /\ call.top_k = 3
    /\ Len(ret) = 2
    /\ ret[1].title = <<"C","o","m","p","a","n","y"," ","V","a","c","a","t","i","o","n"," ","P",
            "o","l","i","c","y">>
    /\ ret[1].score > ret[2].score

-----------------------------------------------------------------------------
(* The claims about what the audit log records *)

\* n times the action a
Repeat(a, n) == [k \in 1..n |-> a]
\* the actions of the entries, in order
ActionsOf(entries) == [k \in 1..Len(entries) |-> entries[k].action]

C23_NoMatchedValueLogged ==
    (kind = "compliance" /\ call.op \in {"search", "query"}) =>
        \A found \in {_detect_pii(call.query)} :
            \A m \in 1..Len(found), k \in 1..Len(audit_log) :
                /\ ~contains(audit_log[k].details, found[m].value)
                /\ audit_log[k].action = "PII_DETECTED_IN_QUERY" =>
                       audit_log[k].metadata.pii_types =
                           [i \in 1..Len(found) |-> found[i].type]


\* C24: for every query of the compliance pipeline that retrieves at least
\* one document, pii_detected is true exactly when _detect_pii finds
\* something in the answer, redacted_answer is _redact_pii(answer) in that
\* case and the answer itself otherwise, and _detect_pii finds nothing in
\* redacted_answer.
C24_RedactedAnswerClean ==
    (kind = "compliance" /\ call.op = "query" /\ ret.citations # <<>>) =>
        \A found \in {_detect_pii(ret.answer)} :
            /\ ret.pii_detected <=> found # <<>>
            /\ ret.redacted_answer =
                   IF found # <<>> THEN _redact_pii(ret.answer) ELSE ret.answer
            /\ _detect_pii(ret.redacted_answer) = <<>>
\* a query was answered from the document holding a phone number: the answer
\* holds the number, pii_detected is set and redacted_answer holds the
\* placeholder in its place
C24_Witness ==
    /\ kind = "compliance"
    /\ call.op = "query"
    /\ call.query = <<"s","e","c","r","e","t">>
    /\ ret.citations # <<>>
    /\ ret.pii_detected
    /\ contains(ret.answer, <<"1","2","3","-","4","5","6","-","7","8","9","0">>)
    /\ ~contains(ret.redacted_answer, <<"1","2","3","-","4","5","6","-","7","8","9","0">>)
    /\ contains(ret.redacted_answer, <<"[","R","E","D","A","C","T","E","D","-","P","H","O","N",
            "E","]">>)

====
